---- MODULE Spec2Model ----
(***************************************************************************)
(* Task-tracking API: the task store, the user store and the request       *)
(* handlers that read and write them.                                      *)
(*                                                                         *)
(* The repository holds two deployments of the same API that cannot be     *)
(* loaded together (they define the same modules):                         *)
(*   "A"  controllers/todoController.js over the Todo schema of            *)
(*        unnamed/part_001 (statuses pending / in-progress / completed),   *)
(*        with the admin controller unnamed/part_008;                      *)
(*   "B"  unnamed/part_005 (todoController object) over the Todo schema of *)
(*        unnamed/part_000 (statuses Pending / In Progress / Completed /   *)
(*        Cancelled), with routes/admin.js and the account controller      *)
(*        unnamed/part_007.                                                *)
(* The variable deploy says which one is running; it never changes.        *)
(*                                                                         *)
(* A task document is a record; a field that is undefined in JavaScript is *)
(* a field missing from the record's DOMAIN.  A request body is a record   *)
(* of the same kind.  The field priority and the updatedAt timestamp are   *)
(* not part of the documents here; createdAt is stamped by the first save; *)
(* the stored isOverdue flag exists in the schema of deployment "B" only.  *)
(* Dates are integers (clock ticks), null is Null.                         *)
(***************************************************************************)
EXTENDS Integers, FiniteSets, Sequences, TLC

\* ---------------------------------------------------------------- bounds
MaxUsers == 3       \* user ids 1..MaxUsers
MaxTodos == 1       \* tasks the CRUD handlers may create
MaxTime  == 2       \* clock values 1..MaxTime
MaxReqs  == 2       \* updateTodo requests in flight at once
MaxListTodos == 2   \* tasks in the store the list requests run against
DayLen   == 2       \* clock ticks per calendar day
WeekLen  == 1       \* clock ticks per seven days
MaxDashTodos == 3   \* tasks in the store when a dashboard call starts

\* ------------------------------------------------------------- constants
Null == 0                    \* JavaScript null (ids and dates start at 1)
TitleMaxLen == 200           \* maxlength of title

UserIds == 1..MaxUsers
Times   == 1..MaxTime

EmptyRec == [k \in {} |-> Null]                 \* {}
Restrict(f, S) == [k \in (DOMAIN f) \cap S |-> f[k]]
Has(f, k) == k \in DOMAIN f                      \* f.k !== undefined

VARIABLES
  deploy,    \* "A" or "B": which controller/schema pair is running
  users,     \* user store: id -> [role, isActive]; DOMAIN = accounts that exist
  todos,     \* task store: id -> document; DOMAIN = tasks that exist
  nextId,    \* next unused task id (ObjectIds are never reused)
  now,       \* the clock read by new Date()
  resp,      \* the last request and its response: [op, by, id, code]
  listed,    \* ids of the tasks matched by the last list request
  inflight,  \* updateTodo requests between their read and their write
  summary,   \* the counts answered by the last statistics request
  pages,     \* the pages received so far by a client walking through a list
  finished,  \* the interleaved update requests answered so far
  tokens,    \* the tokens issued so far: [userId, role], as signed by generateToken
  requests,  \* the Map of a rateLimit middleware: client id -> accepted times kept
  accepted   \* every request a rateLimit middleware let through: <<client id, time>>

vars == <<deploy, users, todos, nextId, now, resp, listed, inflight, summary, pages, finished,
         tokens, requests, accepted>>

\* ---------------------------------------------------------- the schemas
StatusesA == {"pending", "in-progress", "completed"}
StatusesB == {"Pending", "In Progress", "Completed", "Cancelled"}
Statuses  == IF deploy = "A" THEN StatusesA ELSE StatusesB
DefaultStatus == IF deploy = "A" THEN "pending" ELSE "Pending"
CompletedStatus == IF deploy = "A" THEN "completed" ELSE "Completed"

ValidTodo(doc) ==
  /\ Has(doc, "title") /\ Len(doc.title) >= 1 /\ Len(doc.title) <= TitleMaxLen
  /\ Has(doc, "dueDate")
  /\ doc.status \in Statuses
  /\ doc.userId # Null

PreSaveA(doc, t) ==
  LET d1 == IF doc.status = "completed" /\ doc.completedAt = Null
            THEN [doc EXCEPT !.completedAt = t] ELSE doc
  IN IF d1.status # "completed" THEN [d1 EXCEPT !.completedAt = Null] ELSE d1

PreSaveB(doc, t) ==
  LET d1 == IF doc.status = "Completed" /\ doc.completedAt = Null
            THEN [doc EXCEPT !.completedAt = t] ELSE doc
      d2 == IF d1.status # "Completed" /\ d1.completedAt # Null
            THEN [d1 EXCEPT !.completedAt = Null] ELSE d1
  IN [d2 EXCEPT !.isOverdue = IF d2.status # "Completed" /\ d2.status # "Cancelled"
                              THEN t > d2.dueDate ELSE FALSE]

IsOwnedBy(todo, uid) == todo.userId = uid

\* ------------------------------------------------------------ principals
Authenticated(p) == p \in DOMAIN users /\ users[p].isActive

NoSummary == EmptyRec
NoResp == [op |-> "none", code |-> 0, by |-> Null, id |-> Null]
Reply(op, code, by, id) == resp' = [op |-> op, code |-> code, by |-> by, id |-> id]

\* ------------------------------------------------------- request bodies
RECURSIVE Repeat(_, _)
Repeat(c, n) == IF n = 0 THEN ""
                ELSE IF n % 2 = 0 THEN LET h == Repeat(c, n \div 2) IN h \o h
                ELSE c \o Repeat(c, n - 1)
T200 == Repeat("a", TitleMaxLen)          \* a title of exactly 200 characters
T201 == Repeat("a", TitleMaxLen + 1)      \* a title of 201 characters
CreateTitles == {T200, T201}               \* titles tried by create requests
UpdateTitles == {T201}                     \* titles tried by update requests
DueDate == [dueDate |-> MaxTime]           \* every create request carries a due date

\* every status of the running schema, and the other schema's spelling of
\* completed (a value outside the enum)
BodyStatuses == Statuses \cup {IF deploy = "A" THEN "Completed" ELSE "completed"}

OptField(k, vals) == {EmptyRec} \cup {k :> v : v \in vals}

CreateBodiesA == {a @@ DueDate @@ c : a \in OptField("title", CreateTitles),
                                      c \in OptField("assignToUserId", UserIds)}
UpdateBodiesA == {a @@ b @@ c : a \in OptField("title", UpdateTitles),
                                b \in OptField("status", BodyStatuses),
                                c \in OptField("assignToUserId", UserIds)}
AssignBodies  == {a @@ DueDate @@ c : a \in OptField("title", CreateTitles),
                                      c \in OptField("userId", UserIds)}
UpdateBodiesB == {a @@ b : a \in OptField("title", UpdateTitles),
                           b \in OptField("status", BodyStatuses)}

\* ------------------------------------------------ the Todo model's save
\* new Todo({...}) followed by save(): schema defaults, validation, then
\* the pre('save') hook; the document is stored only if validation passes.
NewTodo(fields) == fields @@ [status |-> DefaultStatus, completedAt |-> Null,
                              assignedBy |-> Null, category |-> "Personal"]
                          @@ (IF deploy = "B" THEN [isOverdue |-> FALSE] ELSE EmptyRec)

PreSave(doc, t) == IF deploy = "A" THEN PreSaveA(doc, t) ELSE PreSaveB(doc, t)

\* the first save of a document; timestamps: true stamps createdAt
Insert(doc) ==
  /\ nextId <= MaxTodos
  /\ todos' = (nextId :> (PreSave(doc, now) @@ [createdAt |-> now])) @@ todos
  /\ nextId' = nextId + 1

\* ============================================================ deployment A
\* controllers/todoController.js

\* the test written with || in place of &&: denies unless owner and admin
OwnsOrAdmin_OrForAnd(p, todo) == todo.userId = p /\ users[p].role = "admin"

OwnsOrAdmin(p, todo) == todo.userId = p \/ users[p].role = "admin"

\* the reassignment branch without the role test
AssignRequestedA_AnyRole(p, body) == Has(body, "assignToUserId")

AssignRequestedA(p, body) == Has(body, "assignToUserId") /\ users[p].role = "admin"

createTodo(p, body) ==
  /\ deploy = "A" /\ Authenticated(p)
  /\ LET assign == AssignRequestedA(p, body)
         doc == NewTodo(Restrict(body, {"title", "description", "dueDate"})
                        @@ [userId |-> IF assign THEN body.assignToUserId ELSE p,
                            assignedBy |-> IF assign THEN p ELSE Null])
     IN IF assign /\ body.assignToUserId \notin DOMAIN users
        THEN Reply("createTodo", 404, p, Null) /\ UNCHANGED <<todos, nextId>>
        ELSE IF ~ValidTodo(doc)
        THEN Reply("createTodo", 500, p, Null) /\ UNCHANGED <<todos, nextId>>
        ELSE Insert(doc) /\ Reply("createTodo", 201, p, nextId)
  /\ UNCHANGED <<inflight, listed, deploy, users, now, summary, pages, finished, tokens, requests, accepted>>

\* updateData without the branch that clears completedAt
UpdateDataA_NoClear(todo, body, p, t) ==
  LET plain == Restrict(body, {"title", "description", "dueDate"})
      st == IF Has(body, "status")
            THEN [status |-> body.status]
                 @@ (IF body.status = "completed" /\ todo.completedAt = Null
                     THEN [completedAt |-> t]
                     ELSE EmptyRec)
            ELSE EmptyRec
      asg == IF AssignRequestedA(p, body)
             THEN [userId |-> body.assignToUserId, assignedBy |-> p]
             ELSE EmptyRec
  IN plain @@ st @@ asg

\* updateData with status always written, 'pending' when the body has none
UpdateDataA_StatusDefault(todo, body, p, t) ==
  LET plain == Restrict(body, {"title", "description", "dueDate"})
      status == IF Has(body, "status") THEN body.status ELSE "pending"
      st == [status |-> status]
            @@ (IF status = "completed" /\ todo.completedAt = Null
                THEN [completedAt |-> t]
                ELSE IF status # "completed"
                THEN [completedAt |-> Null]
                ELSE EmptyRec)
      asg == IF AssignRequestedA(p, body)
             THEN [userId |-> body.assignToUserId, assignedBy |-> p]
             ELSE EmptyRec
  IN plain @@ st @@ asg

UpdateDataA(todo, body, p, t) ==
  LET plain == Restrict(body, {"title", "description", "dueDate"})
      st == IF Has(body, "status")
            THEN [status |-> body.status]
                 @@ (IF body.status = "completed" /\ todo.completedAt = Null
                     THEN [completedAt |-> t]
                     ELSE IF body.status # "completed"
                     THEN [completedAt |-> Null]
                     ELSE EmptyRec)
            ELSE EmptyRec
      asg == IF AssignRequestedA(p, body)
             THEN [userId |-> body.assignToUserId, assignedBy |-> p]
             ELSE EmptyRec
  IN plain @@ st @@ asg

\* Todo.findByIdAndUpdate(id, updateData): a $set of the supplied fields,
\* applied atomically to the stored document; no validators, no save hook.
FindByIdAndUpdate(store, id, updateData) ==
  IF id \in DOMAIN store
  THEN [store EXCEPT ![id] = updateData @@ store[id]]
  ELSE store

\* the handler with the reassignment target looked up after the write
updateTodo_WriteBeforeTargetCheck(p, id, body) ==
  /\ deploy = "A" /\ Authenticated(p)
  /\ IF id \notin DOMAIN todos
     THEN Reply("updateTodo", 404, p, id) /\ UNCHANGED todos
     ELSE IF ~OwnsOrAdmin(p, todos[id])
     THEN Reply("updateTodo", 403, p, id) /\ UNCHANGED todos
     ELSE /\ todos' = FindByIdAndUpdate(todos, id, UpdateDataA(todos[id], body, p, now))
          /\ IF AssignRequestedA(p, body) /\ body.assignToUserId \notin DOMAIN users
             THEN Reply("updateTodo", 404, p, id)
             ELSE Reply("updateTodo", 200, p, id)
  /\ UNCHANGED <<inflight, listed, deploy, users, nextId, now, summary, pages, finished, tokens, requests, accepted>>

updateTodo(p, id, body) ==
  /\ deploy = "A" /\ Authenticated(p)
  /\ IF id \notin DOMAIN todos
     THEN Reply("updateTodo", 404, p, id) /\ UNCHANGED todos
     ELSE IF ~OwnsOrAdmin(p, todos[id])
     THEN Reply("updateTodo", 403, p, id) /\ UNCHANGED todos
     ELSE IF AssignRequestedA(p, body) /\ body.assignToUserId \notin DOMAIN users
     THEN Reply("updateTodo", 404, p, id) /\ UNCHANGED todos
     ELSE /\ todos' = FindByIdAndUpdate(todos, id, UpdateDataA(todos[id], body, p, now))
          /\ Reply("updateTodo", 200, p, id)
  /\ UNCHANGED <<inflight, listed, deploy, users, nextId, now, summary, pages, finished, tokens, requests, accepted>>

deleteTodo(p, id) ==
  /\ deploy = "A" /\ Authenticated(p)
  /\ IF id \notin DOMAIN todos
     THEN Reply("deleteTodo", 404, p, id) /\ UNCHANGED todos
     ELSE IF ~OwnsOrAdmin(p, todos[id])
     THEN Reply("deleteTodo", 403, p, id) /\ UNCHANGED todos
     ELSE /\ todos' = [k \in (DOMAIN todos) \ {id} |-> todos[k]]
          /\ Reply("deleteTodo", 200, p, id)
  /\ UNCHANGED <<inflight, listed, deploy, users, nextId, now, summary, pages, finished, tokens, requests, accepted>>

getTodoById(p, id) ==
  /\ deploy = "A" /\ Authenticated(p)
  /\ IF id \notin DOMAIN todos
     THEN Reply("getTodoById", 404, p, id)
     ELSE IF ~OwnsOrAdmin(p, todos[id])
     THEN Reply("getTodoById", 403, p, id)
     ELSE Reply("getTodoById", 200, p, id)
  /\ UNCHANGED <<inflight, listed, deploy, users, todos, nextId, now, summary, pages, finished, tokens, requests, accepted>>

\* the handler without its role test (and without requireAdmin on the route)
assignTodoToUser_NoRoleTest(p, body) ==
  /\ deploy = "A" /\ Authenticated(p)
  /\ IF ~Has(body, "userId") \/ body.userId \notin DOMAIN users
     THEN Reply("assignTodoToUser", 404, p, Null) /\ UNCHANGED <<todos, nextId>>
     ELSE LET doc == NewTodo(Restrict(body, {"title", "description", "dueDate"})
                             @@ [userId |-> body.userId, assignedBy |-> p])
          IN IF ~ValidTodo(doc)
             THEN Reply("assignTodoToUser", 500, p, Null) /\ UNCHANGED <<todos, nextId>>
             ELSE Insert(doc) /\ Reply("assignTodoToUser", 201, p, nextId)
  /\ UNCHANGED <<inflight, listed, deploy, users, now, summary, pages, finished, tokens, requests, accepted>>

assignTodoToUser(p, body) ==
  /\ deploy = "A" /\ Authenticated(p)
  /\ IF users[p].role # "admin"
     THEN Reply("assignTodoToUser", 403, p, Null) /\ UNCHANGED <<todos, nextId>>
     ELSE IF ~Has(body, "userId") \/ body.userId \notin DOMAIN users
     THEN Reply("assignTodoToUser", 404, p, Null) /\ UNCHANGED <<todos, nextId>>
     ELSE LET doc == NewTodo(Restrict(body, {"title", "description", "dueDate"})
                             @@ [userId |-> body.userId, assignedBy |-> p])
          IN IF ~ValidTodo(doc)
             THEN Reply("assignTodoToUser", 500, p, Null) /\ UNCHANGED <<todos, nextId>>
             ELSE Insert(doc) /\ Reply("assignTodoToUser", 201, p, nextId)
  /\ UNCHANGED <<inflight, listed, deploy, users, now, summary, pages, finished, tokens, requests, accepted>>

Tick == /\ now < MaxTime
        /\ now' = now + 1
        /\ UNCHANGED <<inflight, listed, deploy, users, todos, nextId, resp, summary, pages, finished, tokens, requests, accepted>>

\* ============================================================ deployment B
\* unnamed/part_005 (todoController object), routes/admin.js

CreateBodiesB == AssignBodies

\* document.save() of a loaded document: validation, then the pre('save')
\* hook, then the write; a validation error leaves the store as it was.
SaveExisting(id, doc) == todos' = [todos EXCEPT ![id] = PreSave(doc, now)]

todoController_createTodo(p, body) ==
  /\ deploy = "B" /\ Authenticated(p)
  /\ LET target == Has(body, "userId")
         admin == users[p].role = "admin"
         doc == NewTodo(Restrict(body, {"title", "description", "dueDate"})
                        @@ [userId |-> IF target /\ admin THEN body.userId ELSE p,
                            assignedBy |-> IF target /\ admin THEN p ELSE Null])
     IN IF target /\ admin /\ body.userId \notin DOMAIN users
        THEN Reply("createTodo", 404, p, Null) /\ UNCHANGED <<todos, nextId>>
        ELSE IF target /\ ~admin
        THEN Reply("createTodo", 403, p, Null) /\ UNCHANGED <<todos, nextId>>
        ELSE IF ~ValidTodo(doc)
        THEN Reply("createTodo", 500, p, Null) /\ UNCHANGED <<todos, nextId>>
        ELSE Insert(doc) /\ Reply("createTodo", 201, p, nextId)
  /\ UNCHANGED <<inflight, listed, deploy, users, now, summary, pages, finished, tokens, requests, accepted>>

todoController_updateTodo(p, id, body) ==
  /\ deploy = "B" /\ Authenticated(p)
  /\ IF id \notin DOMAIN todos
     THEN Reply("updateTodo", 404, p, id) /\ UNCHANGED todos
     ELSE IF ~IsOwnedBy(todos[id], p) /\ users[p].role # "admin"
     THEN Reply("updateTodo", 403, p, id) /\ UNCHANGED todos
     ELSE LET doc == Restrict(body, {"title", "description", "dueDate", "status"})
                     @@ todos[id]
          IN IF ~ValidTodo(doc)
             THEN Reply("updateTodo", 500, p, id) /\ UNCHANGED todos
             ELSE SaveExisting(id, doc) /\ Reply("updateTodo", 200, p, id)
  /\ UNCHANGED <<inflight, listed, deploy, users, nextId, now, summary, pages, finished, tokens, requests, accepted>>

markCompleted(doc, t) ==
  [doc EXCEPT !.status = "Completed", !.completedAt = t, !.isOverdue = FALSE]

todoController_completeTodo(p, id) ==
  /\ deploy = "B" /\ Authenticated(p)
  /\ IF id \notin DOMAIN todos
     THEN Reply("completeTodo", 404, p, id) /\ UNCHANGED todos
     ELSE IF ~IsOwnedBy(todos[id], p) /\ users[p].role # "admin"
     THEN Reply("completeTodo", 403, p, id) /\ UNCHANGED todos
     ELSE LET doc == markCompleted(todos[id], now)
          IN IF ~ValidTodo(doc)
             THEN Reply("completeTodo", 500, p, id) /\ UNCHANGED todos
             ELSE SaveExisting(id, doc) /\ Reply("completeTodo", 200, p, id)
  /\ UNCHANGED <<inflight, listed, deploy, users, nextId, now, summary, pages, finished, tokens, requests, accepted>>

todoController_deleteTodo(p, id) ==
  /\ deploy = "B" /\ Authenticated(p)
  /\ IF id \notin DOMAIN todos
     THEN Reply("deleteTodo", 404, p, id) /\ UNCHANGED todos
     ELSE IF ~IsOwnedBy(todos[id], p) /\ users[p].role # "admin"
     THEN Reply("deleteTodo", 403, p, id) /\ UNCHANGED todos
     ELSE /\ todos' = [k \in (DOMAIN todos) \ {id} |-> todos[k]]
          /\ Reply("deleteTodo", 200, p, id)
  /\ UNCHANGED <<inflight, listed, deploy, users, nextId, now, summary, pages, finished, tokens, requests, accepted>>

todoController_getTodoById(p, id) ==
  /\ deploy = "B" /\ Authenticated(p)
  /\ IF id \notin DOMAIN todos
     THEN Reply("getTodoById", 404, p, id)
     ELSE IF todos[id].userId # p /\ users[p].role # "admin"
     THEN Reply("getTodoById", 403, p, id)
     ELSE Reply("getTodoById", 200, p, id)
  /\ UNCHANGED <<inflight, listed, deploy, users, todos, nextId, now, summary, pages, finished, tokens, requests, accepted>>

\* router.post('/todos') of routes/admin.js, behind requireAdmin
adminPostTodos(p, body) ==
  /\ deploy = "B" /\ Authenticated(p)
  /\ IF users[p].role # "admin"
     THEN Reply("adminPostTodos", 403, p, Null) /\ UNCHANGED <<todos, nextId>>
     ELSE IF ~Has(body, "userId")
     THEN Reply("adminPostTodos", 400, p, Null) /\ UNCHANGED <<todos, nextId>>
     ELSE IF body.userId \notin DOMAIN users
     THEN Reply("adminPostTodos", 404, p, Null) /\ UNCHANGED <<todos, nextId>>
     ELSE LET doc == NewTodo(Restrict(body, {"title", "description", "dueDate"})
                             @@ [userId |-> body.userId, assignedBy |-> p])
          IN IF ~ValidTodo(doc)
             THEN Reply("adminPostTodos", 500, p, Null) /\ UNCHANGED <<todos, nextId>>
             ELSE Insert(doc) /\ Reply("adminPostTodos", 201, p, nextId)
  /\ UNCHANGED <<inflight, listed, deploy, users, now, summary, pages, finished, tokens, requests, accepted>>

\* ============================================= sequential task requests
InitUsers == [u \in 1..(MaxUsers - 1) |->
                [role |-> IF u = 1 THEN "admin" ELSE "user", isActive |-> TRUE]]

Init ==
  /\ deploy \in {"A", "B"}
  /\ users = InitUsers
  /\ todos = EmptyRec
  /\ nextId = 1
  /\ now = 1
  /\ resp = NoResp
  /\ listed = {}
  /\ inflight = EmptyRec
  /\ summary = NoSummary
  /\ pages = <<>>
  /\ finished = EmptyRec
  /\ tokens = {}
  /\ requests = EmptyRec
  /\ accepted = <<>>

TodoIds == 1..MaxTodos

Next ==
  \/ \E p \in DOMAIN users, body \in CreateBodiesA : createTodo(p, body)
  \/ \E p \in DOMAIN users, id \in TodoIds, body \in UpdateBodiesA : updateTodo(p, id, body)
  \/ \E p \in DOMAIN users, id \in TodoIds : deleteTodo(p, id)
  \/ \E p \in DOMAIN users, id \in TodoIds : getTodoById(p, id)
  \/ \E p \in DOMAIN users, body \in AssignBodies : assignTodoToUser(p, body)
  \/ \E p \in DOMAIN users, body \in CreateBodiesB : todoController_createTodo(p, body)
  \/ \E p \in DOMAIN users, id \in TodoIds, body \in UpdateBodiesB : todoController_updateTodo(p, id, body)
  \/ \E p \in DOMAIN users, id \in TodoIds : todoController_completeTodo(p, id)
  \/ \E p \in DOMAIN users, id \in TodoIds : todoController_deleteTodo(p, id)
  \/ \E p \in DOMAIN users, id \in TodoIds : todoController_getTodoById(p, id)
  \/ \E p \in DOMAIN users, body \in AssignBodies : adminPostTodos(p, body)
  \/ Tick

Spec == Init /\ [][Next]_vars

TypeOK ==
  /\ deploy \in {"A", "B"}
  /\ DOMAIN todos \subseteq TodoIds
  /\ nextId \in 1..(MaxTodos + 1)
  /\ now \in Times
  /\ \A id \in DOMAIN todos : todos[id].userId \in DOMAIN users

\* ============================================ interleaved updateTodo (A)
\* controllers/todoController.js updateTodo, split at its awaits: the read
\* (findById, the ownership test, updateData built from the document read)
\* and the write (findByIdAndUpdate).  Other requests run in between.
ReqIds == 1..MaxReqs

ConcBodies == {a @@ b : a \in OptField("title", UpdateTitles),
                        b \in OptField("status", Statuses)}

\* a request id is used by one request
FreeReq(r) == r \notin DOMAIN inflight /\ r \notin DOMAIN finished

\* the answered request r, with the fields it supplied
Answered(r, code, supplied) ==
  /\ finished' = (r :> [id |-> inflight[r].id, code |-> code, supplied |-> supplied])
              @@ finished
  /\ inflight' = [k \in (DOMAIN inflight) \ {r} |-> inflight[k]]

updateTodo_read(r, p, id, body) ==
  /\ deploy = "A" /\ Authenticated(p) /\ FreeReq(r)
  /\ IF id \notin DOMAIN todos
     THEN Reply("updateTodo", 404, p, id) /\ UNCHANGED inflight
     ELSE IF ~OwnsOrAdmin(p, todos[id])
     THEN Reply("updateTodo", 403, p, id) /\ UNCHANGED inflight
     ELSE IF AssignRequestedA(p, body) /\ body.assignToUserId \notin DOMAIN users
     THEN Reply("updateTodo", 404, p, id) /\ UNCHANGED inflight
     ELSE /\ inflight' = (r :> [by |-> p, id |-> id,
                                updateData |-> UpdateDataA(todos[id], body, p, now)])
                         @@ inflight
          /\ UNCHANGED resp
  /\ UNCHANGED <<deploy, users, todos, nextId, now, listed, summary, pages, finished, tokens, requests, accepted>>

updateTodo_write(r) ==
  /\ r \in DOMAIN inflight /\ Has(inflight[r], "updateData")
  /\ todos' = FindByIdAndUpdate(todos, inflight[r].id, inflight[r].updateData)
  /\ Reply("updateTodo", 200, inflight[r].by, inflight[r].id)
  /\ Answered(r, 200, Restrict(inflight[r].updateData, {"title", "status"}))
  /\ UNCHANGED <<deploy, users, nextId, now, listed, summary, pages, tokens, requests, accepted>>

\* updateTodo of unnamed/part_005 split at its awaits: the read (findById,
\* the ownership test, the assignments to the loaded document) and
\* todo.save().  save() validates the document in memory, runs the
\* pre('save') hook on it and writes the paths whose value differs from the
\* one loaded.

\* a save that writes every path of the document in memory
ModifiedPaths_All(loaded, saved) == DOMAIN saved

ModifiedPaths(loaded, saved) ==
  {k \in DOMAIN saved : ~Has(loaded, k) \/ saved[k] # loaded[k]}

todoController_updateTodo_read(r, p, id, body) ==
  /\ deploy = "B" /\ Authenticated(p) /\ FreeReq(r)
  /\ IF id \notin DOMAIN todos
     THEN Reply("updateTodo", 404, p, id) /\ UNCHANGED inflight
     ELSE IF ~IsOwnedBy(todos[id], p) /\ users[p].role # "admin"
     THEN Reply("updateTodo", 403, p, id) /\ UNCHANGED inflight
     ELSE /\ inflight' = (r :> [by |-> p, id |-> id, loaded |-> todos[id],
                                body |-> Restrict(body, {"title", "description",
                                                         "dueDate", "status"})])
                         @@ inflight
          /\ UNCHANGED resp
  /\ UNCHANGED <<deploy, users, todos, nextId, now, listed, summary, pages, finished, tokens, requests, accepted>>

todoController_updateTodo_save(r) ==
  /\ r \in DOMAIN inflight /\ Has(inflight[r], "loaded")
  /\ LET req == inflight[r]
         doc == req.body @@ req.loaded
         saved == PreSaveB(doc, now)
     IN IF ~ValidTodo(doc)
        THEN /\ Reply("updateTodo", 500, req.by, req.id)
             /\ Answered(r, 500, req.body)
             /\ UNCHANGED todos
        ELSE /\ todos' = [todos EXCEPT ![req.id] =
                            Restrict(saved, ModifiedPaths(req.loaded, saved)) @@ @]
             /\ Reply("updateTodo", 200, req.by, req.id)
             /\ Answered(r, 200, req.body)
  /\ UNCHANGED <<deploy, users, nextId, now, listed, summary, pages, tokens, requests, accepted>>

\* one task of user 2, due at tick 1 or later, pending or completed at tick 1
ConcTodos ==
  LET flag == IF deploy = "B" THEN [isOverdue |-> FALSE] ELSE EmptyRec
  IN UNION { { flag @@ [title |-> T200, dueDate |-> d, status |-> DefaultStatus,
                        completedAt |-> Null, userId |-> 2, assignedBy |-> Null,
                        category |-> "Personal"],
               flag @@ [title |-> T200, dueDate |-> d, status |-> CompletedStatus,
                        completedAt |-> 1, userId |-> 2, assignedBy |-> Null,
                        category |-> "Personal"] } : d \in {1, MaxTime} }

InitConc ==
  /\ deploy \in {"A", "B"}
  /\ users = InitUsers
  /\ \E d \in ConcTodos : todos = (1 :> d)
  /\ nextId = 2
  /\ now = 1
  /\ resp = NoResp
  /\ listed = {}
  /\ inflight = EmptyRec
  /\ summary = NoSummary
  /\ pages = <<>>
  /\ finished = EmptyRec
  /\ tokens = {}
  /\ requests = EmptyRec
  /\ accepted = <<>>

NextConc ==
  \/ \E r \in ReqIds, p \in DOMAIN users, id \in DOMAIN todos, body \in ConcBodies :
       updateTodo_read(r, p, id, body)
  \/ \E r \in ReqIds : updateTodo_write(r)
  \/ \E r \in ReqIds, p \in DOMAIN users, id \in DOMAIN todos, body \in ConcBodies :
       todoController_updateTodo_read(r, p, id, body)
  \/ \E r \in ReqIds : todoController_updateTodo_save(r)
  \/ Tick

SpecConc == InitConc /\ [][NextConc]_vars

\* ======================================================== user accounts
UserUpdateBodies == {a @@ b : a \in OptField("role", {"user", "admin"}),
                              b \in OptField("isActive", BOOLEAN)}

ActiveAdminsExcept(uid) ==
  {u \in DOMAIN users : users[u].role = "admin" /\ users[u].isActive /\ u # uid}

UserFindByIdAndUpdate(store, uid, updateData) ==
  IF uid \in DOMAIN store
  THEN [store EXCEPT ![uid] = updateData @@ store[uid]]
  ELSE store

\* router.put('/users/:id') of routes/admin.js (B), behind requireAdmin
adminPutUser(p, uid, body) ==
  /\ deploy = "B" /\ Authenticated(p)
  /\ IF users[p].role # "admin"
     THEN Reply("adminPutUser", 403, p, uid) /\ UNCHANGED users
     ELSE IF uid = p /\ Has(body, "isActive") /\ body.isActive = FALSE
     THEN Reply("adminPutUser", 400, p, uid) /\ UNCHANGED users
     ELSE IF /\ Has(body, "role") /\ body.role = "user"
             /\ uid \in DOMAIN users /\ users[uid].role = "admin"
             /\ Cardinality(ActiveAdminsExcept(uid)) < 1
     THEN Reply("adminPutUser", 400, p, uid) /\ UNCHANGED users
     ELSE IF uid \notin DOMAIN users
     THEN Reply("adminPutUser", 404, p, uid) /\ UNCHANGED users
     ELSE /\ users' = UserFindByIdAndUpdate(users, uid, Restrict(body, {"role", "isActive"}))
          /\ Reply("adminPutUser", 200, p, uid)
  /\ UNCHANGED <<deploy, todos, nextId, now, listed, inflight, summary, pages, finished, tokens, requests, accepted>>

\* updateUser of unnamed/part_008 (A), behind requireAdmin
updateUser(p, uid, body) ==
  /\ deploy = "A" /\ Authenticated(p)
  /\ IF users[p].role # "admin"
     THEN Reply("updateUser", 403, p, uid) /\ UNCHANGED users
     ELSE IF uid = p /\ Has(body, "isActive") /\ body.isActive = FALSE
     THEN Reply("updateUser", 400, p, uid) /\ UNCHANGED users
     ELSE IF uid \notin DOMAIN users
     THEN Reply("updateUser", 404, p, uid) /\ UNCHANGED users
     ELSE /\ users' = UserFindByIdAndUpdate(users, uid, Restrict(body, {"role", "isActive"}))
          /\ Reply("updateUser", 200, p, uid)
  /\ UNCHANGED <<deploy, todos, nextId, now, listed, inflight, summary, pages, finished, tokens, requests, accepted>>

\* deleteAccount of unnamed/part_007 (B): the principal deactivates itself
deleteAccount(p) ==
  /\ deploy = "B" /\ Authenticated(p)
  /\ IF users[p].role = "admin" /\ Cardinality(ActiveAdminsExcept(Null)) <= 1
     THEN Reply("deleteAccount", 400, p, p) /\ UNCHANGED users
     ELSE /\ users' = UserFindByIdAndUpdate(users, p, [isActive |-> FALSE])
          /\ Reply("deleteAccount", 200, p, p)
  /\ UNCHANGED <<deploy, todos, nextId, now, listed, inflight, summary, pages, finished, tokens, requests, accepted>>

HasActiveAdmin(store) ==
  \E u \in DOMAIN store : store[u].role = "admin" /\ store[u].isActive

InitAccounts ==
  /\ deploy \in {"A", "B"}
  /\ users \in [1..(MaxUsers - 1) -> [role : {"user", "admin"}, isActive : BOOLEAN]]
  /\ HasActiveAdmin(users)
  /\ todos = EmptyRec
  /\ nextId = 1
  /\ now = 1
  /\ resp = NoResp
  /\ listed = {}
  /\ inflight = EmptyRec
  /\ summary = NoSummary
  /\ pages = <<>>
  /\ finished = EmptyRec
  /\ tokens = {}
  /\ requests = EmptyRec
  /\ accepted = <<>>

NextAccounts ==
  \/ \E p \in DOMAIN users, uid \in UserIds, body \in UserUpdateBodies :
       adminPutUser(p, uid, body)
  \/ \E p \in DOMAIN users, uid \in UserIds, body \in UserUpdateBodies :
       updateUser(p, uid, body)
  \/ \E p \in DOMAIN users : deleteAccount(p)

SpecAccounts == InitAccounts /\ [][NextAccounts]_vars

\* ======================================================= list requests (A)
\* controllers/todoController.js.  A handler builds a query record and the
\* store answers with the documents that match it; listed holds the ids of
\* all matching documents, the set from which sort/skip/limit cut a page.

StartOfDay(t) == t - (t % DayLen)          \* setHours(0, 0, 0, 0)

LowerChar(c) == CASE c = "A" -> "a" [] c = "B" -> "b" [] c = "C" -> "c"
                  [] c = "P" -> "p" [] c = "W" -> "w" [] OTHER -> c

\* one pattern character against one text character, case-insensitively;
\* the pattern is a regular expression, in which "." stands for any character
CharMatch(pc, tc) == pc = "." \/ LowerChar(pc) = LowerChar(tc)

\* { field: { $regex: q, $options: 'i' } } for a q of literal characters and dots
RegexI(text, q) ==
  \E i \in 1..(Len(text) - Len(q) + 1) :
    \A j \in 1..Len(q) : CharMatch(SubSeq(q, j, j), SubSeq(text, i + j - 1, i + j - 1))

Matches(doc, query) ==
  /\ Has(query, "userId") => doc.userId = query.userId
  /\ Has(query, "status") =>
       IF Has(query.status, "ne") THEN doc.status # query.status.ne
       ELSE IF Has(query.status, "nin") THEN doc.status \notin query.status.nin
       ELSE doc.status = query.status.eq
  /\ Has(query, "dueDate") =>
       /\ Has(query.dueDate, "gte") => doc.dueDate >= query.dueDate.gte
       /\ Has(query.dueDate, "lt") => doc.dueDate < query.dueDate.lt
       /\ Has(query.dueDate, "lte") => doc.dueDate <= query.dueDate.lte
  /\ Has(query, "search") =>
       \E f \in query.search.fields : Has(doc, f) /\ RegexI(doc[f], query.search.term)

Find(query) == {id \in DOMAIN todos : Matches(todos[id], query)}

GroupQuery(group, t) ==
  IF group = "today"
  THEN [dueDate |-> [gte |-> StartOfDay(t), lt |-> StartOfDay(t) + DayLen],
        status |-> [ne |-> "completed"]]
  ELSE IF group = "completed" THEN [status |-> [eq |-> "completed"]]
  ELSE IF group = "overdue" THEN [dueDate |-> [lt |-> t], status |-> [ne |-> "completed"]]
  ELSE IF group = "all" THEN [status |-> [ne |-> "completed"]]
  ELSE EmptyRec

\* the query of getTodos with the caller's userId parameter honoured
GetTodosQuery_UserIdParam(p, q, t) ==
  LET grouped == (IF Has(q, "group") THEN GroupQuery(q.group, t) ELSE EmptyRec)
                 @@ [userId |-> IF Has(q, "userId") THEN q.userId ELSE p]
      st == IF Has(q, "status") /\ ~Has(q, "group")
            THEN [status |-> [eq |-> q.status]] ELSE EmptyRec
      se == IF Has(q, "search") THEN [search |-> [term |-> q.search, fields |-> {"title", "description"}]]
            ELSE EmptyRec
  IN se @@ st @@ grouped

\* the query of getTodos with the status parameter applied whatever the group
GetTodosQuery_StatusAlways(p, q, t) ==
  LET grouped == (IF Has(q, "group") THEN GroupQuery(q.group, t) ELSE EmptyRec)
                 @@ [userId |-> p]
      st == IF Has(q, "status") THEN [status |-> [eq |-> q.status]] ELSE EmptyRec
      se == IF Has(q, "search") THEN [search |-> [term |-> q.search, fields |-> {"title", "description"}]]
            ELSE EmptyRec
  IN se @@ st @@ grouped

GetTodosQuery(p, q, t) ==
  LET grouped == (IF Has(q, "group") THEN GroupQuery(q.group, t) ELSE EmptyRec)
                 @@ [userId |-> p]
      st == IF Has(q, "status") /\ ~Has(q, "group")
            THEN [status |-> [eq |-> q.status]] ELSE EmptyRec
      se == IF Has(q, "search") THEN [search |-> [term |-> q.search, fields |-> {"title", "description"}]]
            ELSE EmptyRec
  IN se @@ st @@ grouped

\* the userId a list request names in its query string, if any
NamedUser(q) == IF Has(q, "userId") THEN q.userId ELSE Null

\* the response of a list request also records the query string and the
\* time at which the handler read the clock
ListReply(op, code, p, q, ids) ==
  /\ resp' = [op |-> op, code |-> code, by |-> p, id |-> NamedUser(q),
              q |-> q, at |-> now]
  /\ listed' = ids
  /\ UNCHANGED <<deploy, users, todos, nextId, now, inflight, summary, pages, finished, tokens, requests, accepted>>

getTodos(p, q) ==
  /\ deploy = "A" /\ Authenticated(p)
  /\ ListReply("getTodos", 200, p, q, Find(GetTodosQuery(p, q, now)))

getTodosByGroup(p, q) ==
  /\ deploy = "A" /\ Authenticated(p) /\ Has(q, "group")
  /\ IF q.group \in {"today", "all", "completed", "overdue"}
     THEN ListReply("getTodosByGroup", 200, p, q,
                    Find(GroupQuery(q.group, now) @@ [userId |-> p]))
     ELSE ListReply("getTodosByGroup", 400, p, q, {})

getTodaysTodos(p, q) ==
  /\ deploy = "A" /\ Authenticated(p)
  /\ ListReply("getTodaysTodos", 200, p, q,
               Find([userId |-> p,
                     dueDate |-> [gte |-> StartOfDay(now), lt |-> StartOfDay(now) + DayLen],
                     status |-> [ne |-> "completed"]]))

getOverdueTodos(p, q) ==
  /\ deploy = "A" /\ Authenticated(p)
  /\ ListReply("getOverdueTodos", 200, p, q,
               Find([userId |-> p, dueDate |-> [lt |-> now],
                     status |-> [ne |-> "completed"]]))

getCompletedTodos(p, q) ==
  /\ deploy = "A" /\ Authenticated(p)
  /\ ListReply("getCompletedTodos", 200, p, q,
               Find([userId |-> p, status |-> [eq |-> "completed"]]))

searchTodos(p, q) ==
  /\ deploy = "A" /\ Authenticated(p)
  /\ IF ~Has(q, "search") \/ q.search = ""
     THEN ListReply("searchTodos", 400, p, q, {})
     ELSE ListReply("searchTodos", 200, p, q,
                    Find([userId |-> p,
                          search |-> [term |-> q.search,
                                      fields |-> {"title", "description"}]]))

\* ---- the list requests of deployment B: unnamed/part_005 over the statics
\* of unnamed/part_000
todoController_getTodos(p, q) ==
  /\ deploy = "B" /\ Authenticated(p)
  /\ ListReply("getTodos", 200, p, q,
       Find((IF Has(q, "search")
             THEN [search |-> [term |-> q.search, fields |-> {"title", "description"}]]
             ELSE EmptyRec)
            @@ (IF Has(q, "status") THEN [status |-> [eq |-> q.status]] ELSE EmptyRec)
            @@ [userId |-> p]))

\* Todo.findTodaysTodos(userId): endOfDay is 23:59:59.999, the last
\* millisecond before the start of the next day
FindTodaysTodosB(uid, t) ==
  Find([dueDate |-> [gte |-> StartOfDay(t), lte |-> StartOfDay(t) + DayLen - 1],
        userId |-> uid])

todoController_getTodaysTodos(p) ==
  /\ deploy = "B" /\ Authenticated(p)
  /\ ListReply("getTodaysTodos", 200, p, EmptyRec, FindTodaysTodosB(p, now))

\* Todo.findOverdue(userId) of unnamed/part_000
FindOverdueB(uid, t) ==
  Find([dueDate |-> [lt |-> t], status |-> [nin |-> {"Completed", "Cancelled"}],
        userId |-> uid])

todoController_getOverdueTodos(p) ==
  /\ deploy = "B" /\ Authenticated(p)
  /\ ListReply("getOverdueTodos", 200, p, EmptyRec, FindOverdueB(p, now))

todoController_getCompletedTodos(p) ==
  /\ deploy = "B" /\ Authenticated(p)
  /\ ListReply("getCompletedTodos", 200, p, EmptyRec,
               Find([status |-> [eq |-> "Completed"], userId |-> p]))

\* Todo.searchTodos(searchTerm, userId)
todoController_searchTodos(p, q) ==
  /\ deploy = "B" /\ Authenticated(p)
  /\ IF ~Has(q, "search") \/ q.search = ""
     THEN ListReply("searchTodos", 400, p, q, {})
     ELSE ListReply("searchTodos", 200, p, q,
                    Find([userId |-> p,
                          search |-> [term |-> q.search,
                                      fields |-> {"title", "description", "category"}]]))

\* query strings: group, status, search, and a userId naming any user
UserIdParams == OptField("userId", UserIds)
GroupParams == OptField("group", {"today", "completed", "overdue", "all", "week"})
SearchParams == OptField("search", {"a", "w", "."})
ListQueries == {a @@ b @@ c @@ d :
                  a \in GroupParams, b \in OptField("status", {"completed"}),
                  c \in SearchParams, d \in UserIdParams}
GroupQueries == {a @@ d : a \in GroupParams \ {EmptyRec}, d \in UserIdParams}
SearchQueries == {c @@ d : c \in SearchParams, d \in UserIdParams}
ListQueriesB == {b @@ c : b \in OptField("status", {"Completed"}), c \in SearchParams}

\* stored tasks.  Due date and status: pending and due at any time, or
\* completed and due at time 1.  Text: the search term "a" occurs in the
\* title, or only in the description (and in the category Personal), and
\* "w" occurs only in the category Work.
ListDocs ==
  LET dueStatus == {[d |-> d, s |-> DefaultStatus, c |-> Null] : d \in Times}
                   \cup {[d |-> 1, s |-> CompletedStatus, c |-> 1]}
      flag == IF deploy = "B" THEN [isOverdue |-> FALSE] ELSE EmptyRec
      doc(u, ds, text) == text @@ flag @@
                          [dueDate |-> ds.d, status |-> ds.s, completedAt |-> ds.c,
                           userId |-> u, assignedBy |-> Null]
      pendingAt1 == [d |-> 1, s |-> DefaultStatus, c |-> Null]
  IN {doc(u, ds, [title |-> "Ab", category |-> "Personal"]) :
        u \in DOMAIN InitUsers, ds \in dueStatus}
     \cup {doc(u, pendingAt1, [title |-> "xy", description |-> "cab",
                               category |-> "Personal"]) : u \in DOMAIN InitUsers}
     \cup {doc(u, pendingAt1, [title |-> "xy", category |-> "Work"]) :
             u \in DOMAIN InitUsers}

InitList ==
  /\ deploy \in {"A", "B"}
  /\ users = InitUsers
  /\ todos \in [1..MaxListTodos -> ListDocs]
  /\ nextId = MaxListTodos + 1
  /\ now = 1
  /\ resp = NoResp
  /\ listed = {}
  /\ inflight = EmptyRec
  /\ summary = NoSummary
  /\ pages = <<>>
  /\ finished = EmptyRec
  /\ tokens = {}
  /\ requests = EmptyRec
  /\ accepted = <<>>

\* the response is sent; the next list request is taken up after that
Deliver ==
  /\ resp # NoResp
  /\ resp' = NoResp
  /\ listed' = {}
  /\ UNCHANGED <<deploy, users, todos, nextId, now, inflight, summary, pages, finished, tokens, requests, accepted>>

Idle == resp = NoResp

NextList ==
  \/ Idle /\ \E p \in DOMAIN users, q \in ListQueries : getTodos(p, q)
  \/ Idle /\ \E p \in DOMAIN users, q \in GroupQueries : getTodosByGroup(p, q)
  \/ Idle /\ \E p \in DOMAIN users, q \in UserIdParams : getTodaysTodos(p, q)
  \/ Idle /\ \E p \in DOMAIN users, q \in UserIdParams : getOverdueTodos(p, q)
  \/ Idle /\ \E p \in DOMAIN users, q \in UserIdParams : getCompletedTodos(p, q)
  \/ Idle /\ \E p \in DOMAIN users, q \in SearchQueries : searchTodos(p, q)
  \/ Idle /\ \E p \in DOMAIN users, q \in ListQueriesB : todoController_getTodos(p, q)
  \/ Idle /\ \E p \in DOMAIN users : todoController_getTodaysTodos(p)
  \/ Idle /\ \E p \in DOMAIN users : todoController_getOverdueTodos(p)
  \/ Idle /\ \E p \in DOMAIN users : todoController_getCompletedTodos(p)
  \/ Idle /\ \E p \in DOMAIN users, q \in SearchQueries : todoController_searchTodos(p, q)
  \/ Deliver
  \/ Tick

SpecList == InitList /\ [][NextList]_vars

\* ================================================= overdue and statistics
\* virtual('isOverdue') of unnamed/part_001 and virtual('isOverdueVirtual')
\* of unnamed/part_000, read at time t
IsOverdueA(doc, t) == IF doc.status = "completed" THEN FALSE ELSE t > doc.dueDate

IsOverdueVirtualB(doc, t) ==
  IF doc.status = "Completed" \/ doc.status = "Cancelled" THEN FALSE ELSE t > doc.dueDate

\* $match { userId } followed by $group with $sum / $cond counters
OwnedBy(uid) == {id \in DOMAIN todos : todos[id].userId = uid}
CountStatus(ids, st) == Cardinality({id \in ids : todos[id].status = st})

\* the response of a statistics request also records the time at which the
\* handler read the clock
StatsReply(op, p, counts) ==
  /\ resp' = [op |-> op, code |-> 200, by |-> p, id |-> Null, at |-> now]
  /\ summary' = counts
  /\ UNCHANGED <<deploy, users, todos, nextId, now, listed, inflight, pages, finished, tokens, requests, accepted>>

\* getUserStats counting every task whose due date has passed as overdue
getUserStats_OverdueAnyStatus(p) ==
  /\ deploy = "A" /\ Authenticated(p)
  /\ LET mine == OwnedBy(p)
     IN StatsReply("getUserStats", p,
          [total |-> Cardinality(mine),
           pending |-> CountStatus(mine, "pending"),
           inProgress |-> CountStatus(mine, "in-progress"),
           completed |-> CountStatus(mine, "completed"),
           overdue |-> Cardinality({id \in mine : todos[id].dueDate < now})])

\* getUserStats of controllers/userController.js
getUserStats(p) ==
  /\ deploy = "A" /\ Authenticated(p)
  /\ LET mine == OwnedBy(p)
     IN StatsReply("getUserStats", p,
          [total |-> Cardinality(mine),
           pending |-> CountStatus(mine, "pending"),
           inProgress |-> CountStatus(mine, "in-progress"),
           completed |-> CountStatus(mine, "completed"),
           overdue |-> Cardinality({id \in mine : todos[id].dueDate < now
                                                 /\ todos[id].status # "completed"})])

\* getStatsSummary of unnamed/part_005.  Its overdue counter writes $nin
\* inside $cond, where the aggregation language has $in but no $nin: a
\* server that rejects the pipeline makes the handler answer 500, one that
\* evaluates it counts as written.  Both outcomes are kept.
todoController_getStatsSummary(p) ==
  /\ deploy = "B" /\ Authenticated(p)
  /\ \/ LET mine == OwnedBy(p)
        IN StatsReply("getStatsSummary", p,
             [total |-> Cardinality(mine),
              pending |-> CountStatus(mine, "Pending"),
              inProgress |-> CountStatus(mine, "In Progress"),
              completed |-> CountStatus(mine, "Completed"),
              overdue |-> Cardinality({id \in mine :
                                         /\ todos[id].dueDate < now
                                         /\ todos[id].status \notin {"Completed", "Cancelled"}})])
     \/ /\ Reply("getStatsSummary", 500, p, Null)
        /\ UNCHANGED <<deploy, users, todos, nextId, now, listed, inflight, summary, pages, finished, tokens, requests, accepted>>

\* create requests of this part: a task with a valid title due at any time
StatsCreateBodies == {[title |-> T200, dueDate |-> d] : d \in Times}

NextStats ==
  \/ \E p \in DOMAIN users, body \in StatsCreateBodies : createTodo(p, body)
  \/ \E p \in DOMAIN users, body \in StatsCreateBodies : todoController_createTodo(p, body)
  \/ \E p \in DOMAIN users, id \in TodoIds, body \in UpdateBodiesA : updateTodo(p, id, body)
  \/ \E p \in DOMAIN users, id \in TodoIds, body \in UpdateBodiesB :
       todoController_updateTodo(p, id, body)
  \/ \E p \in DOMAIN users, id \in TodoIds : todoController_completeTodo(p, id)
  \/ \E p \in DOMAIN users : getOverdueTodos(p, EmptyRec)
  \/ \E p \in DOMAIN users : todoController_getOverdueTodos(p)
  \/ \E p \in DOMAIN users : getUserStats(p)
  \/ \E p \in DOMAIN users : todoController_getStatsSummary(p)
  \/ Tick

SpecStats == Init /\ [][NextStats]_vars

\* ================================================================ paging
\* getTodos of controllers/todoController.js from Todo.find(query) on:
\* .sort(sort).skip(skip).limit(limit), and countDocuments(query) for the
\* total.  The sort names one field and no tie-breaker, and the database
\* promises no order among documents that tie on it, so each request may see
\* the ties in any order.  A client walks through the pages 1, 2, ... of one
\* list with the same sort field and page size.

\* createdAt is taken to differ between any two tasks and to follow the ids
SortKey(id, sortBy) == IF sortBy = "createdAt" THEN id ELSE todos[id].dueDate

Perms(S) == {o \in [1..Cardinality(S) -> S] :
               \A i, j \in 1..Cardinality(S) : i # j => o[i] # o[j]}

\* the orders in which find().sort({sortBy: 1}) may return the documents
SortedOrders(ids, sortBy) ==
  {o \in Perms(ids) :
     \A i, j \in 1..Cardinality(ids) :
       i < j => SortKey(o[i], sortBy) <= SortKey(o[j], sortBy)}

Min(a, b) == IF a < b THEN a ELSE b

\* .skip((page - 1) * limit).limit(limit) of one order
PageOf(order, page, limit) ==
  SubSeq(order, (page - 1) * limit + 1, Min(page * limit, Len(order)))

PageQueries == {[sortBy |-> f, limit |-> n] :
                  f \in {"createdAt", "dueDate"}, n \in 1..MaxListTodos}

getTodosPaged(p, q) ==
  /\ deploy = "A" /\ Authenticated(p)
  /\ pages # <<>> => (resp.by = p /\ resp.q = q)
  /\ LET matched == Find([userId |-> p])
     IN /\ (Len(pages) + 1) * q.limit <= Cardinality(matched) + q.limit
        /\ \E order \in SortedOrders(matched, q.sortBy) :
             pages' = Append(pages, PageOf(order, Len(pages) + 1, q.limit))
        /\ resp' = [op |-> "getTodos", code |-> 200, by |-> p, id |-> Null,
                    q |-> q, at |-> now, total |-> Cardinality(matched)]
        /\ listed' = matched
  /\ UNCHANGED <<deploy, users, todos, nextId, now, inflight, summary, finished, tokens, requests, accepted>>

\* the client starts over with page 1
NewWalk ==
  /\ pages # <<>>
  /\ pages' = <<>> /\ resp' = NoResp /\ listed' = {}
  /\ UNCHANGED <<deploy, users, todos, nextId, now, inflight, summary, finished, tokens, requests, accepted>>

PageDocs == {d \in ListDocs : d.title = "Ab" /\ d.status = "pending"}

InitPage ==
  /\ deploy = "A"
  /\ users = InitUsers
  /\ todos \in [1..MaxListTodos -> PageDocs]
  /\ nextId = MaxListTodos + 1
  /\ now = 1
  /\ resp = NoResp
  /\ listed = {}
  /\ inflight = EmptyRec
  /\ summary = NoSummary
  /\ pages = <<>>
  /\ finished = EmptyRec
  /\ tokens = {}
  /\ requests = EmptyRec
  /\ accepted = <<>>

NextPage ==
  \/ \E p \in DOMAIN users, q \in PageQueries : getTodosPaged(p, q)
  \/ NewWalk

SpecPage == InitPage /\ [][NextPage]_vars

\* ============================================ interleaved account requests
\* deleteAccount of unnamed/part_007 and router.put('/users/:id') of
\* routes/admin.js (deployment B), split at their awaits: the tests, with the
\* count of active admins, and the findByIdAndUpdate that follows.  The
\* principal is authenticated when the request starts.

deleteAccount_countDocuments(r, p) ==
  /\ deploy = "B" /\ Authenticated(p) /\ FreeReq(r)
  /\ IF users[p].role = "admin" /\ Cardinality(ActiveAdminsExcept(Null)) <= 1
     THEN Reply("deleteAccount", 400, p, p) /\ UNCHANGED inflight
     ELSE /\ inflight' = (r :> [op |-> "deleteAccount", by |-> p, id |-> p,
                                userUpdate |-> [isActive |-> FALSE]]) @@ inflight
          /\ UNCHANGED resp
  /\ UNCHANGED <<deploy, users, todos, nextId, now, listed, summary, pages, finished, tokens, requests, accepted>>

adminPutUser_countDocuments(r, p, uid, body) ==
  /\ deploy = "B" /\ Authenticated(p) /\ FreeReq(r)
  /\ IF users[p].role # "admin"
     THEN Reply("adminPutUser", 403, p, uid) /\ UNCHANGED inflight
     ELSE IF uid = p /\ Has(body, "isActive") /\ body.isActive = FALSE
     THEN Reply("adminPutUser", 400, p, uid) /\ UNCHANGED inflight
     ELSE IF /\ Has(body, "role") /\ body.role = "user"
             /\ uid \in DOMAIN users /\ users[uid].role = "admin"
             /\ Cardinality(ActiveAdminsExcept(uid)) < 1
     THEN Reply("adminPutUser", 400, p, uid) /\ UNCHANGED inflight
     ELSE /\ inflight' = (r :> [op |-> "adminPutUser", by |-> p, id |-> uid,
                                userUpdate |-> Restrict(body, {"role", "isActive"})])
                         @@ inflight
          /\ UNCHANGED resp
  /\ UNCHANGED <<deploy, users, todos, nextId, now, listed, summary, pages, finished, tokens, requests, accepted>>

\* the User.findByIdAndUpdate of either request and its answer
User_findByIdAndUpdate(r) ==
  /\ r \in DOMAIN inflight /\ Has(inflight[r], "userUpdate")
  /\ LET req == inflight[r]
     IN IF req.id \notin DOMAIN users
        THEN /\ Reply(req.op, 404, req.by, req.id)
             /\ Answered(r, 404, req.userUpdate)
             /\ UNCHANGED users
        ELSE /\ users' = UserFindByIdAndUpdate(users, req.id, req.userUpdate)
             /\ Reply(req.op, 200, req.by, req.id)
             /\ Answered(r, 200, req.userUpdate)
  /\ UNCHANGED <<deploy, todos, nextId, now, listed, summary, pages, tokens, requests, accepted>>

\* every account is an active admin when the requests start
InitAdmins ==
  /\ deploy = "B"
  /\ users = [u \in 1..(MaxUsers - 1) |-> [role |-> "admin", isActive |-> TRUE]]
  /\ todos = EmptyRec
  /\ nextId = 1
  /\ now = 1
  /\ resp = NoResp
  /\ listed = {}
  /\ inflight = EmptyRec
  /\ summary = NoSummary
  /\ pages = <<>>
  /\ finished = EmptyRec
  /\ tokens = {}
  /\ requests = EmptyRec
  /\ accepted = <<>>

NextAdmins ==
  \/ \E r \in ReqIds, p \in DOMAIN users : deleteAccount_countDocuments(r, p)
  \/ \E r \in ReqIds, p \in DOMAIN users, uid \in UserIds, body \in UserUpdateBodies :
       adminPutUser_countDocuments(r, p, uid, body)
  \/ \E r \in ReqIds : User_findByIdAndUpdate(r)

SpecAdmins == InitAdmins /\ [][NextAdmins]_vars

\* ======================================================= accounts by name
\* register of unnamed/part_007, addUser of unnamed/part_008 (behind
\* requireAdmin), updateProfile of controllers/userController.js and
\* updateUserRole of unnamed/part_006 (behind the admin role middleware).
\* Here an account also has a username and an email.  models/User is not
\* among the sources: its schema is taken from the specification (username
\* unique, email unique, role in {user, admin} with default user), the two
\* unique fields as unique indexes, which make a write that would duplicate a
\* value throw.  register and updateProfile are split at their awaits.

\* authenticateToken then requireAdmin
IsAdmin(p) == Authenticated(p) /\ users[p].role = "admin"

Usernames == {"ann", "cy"}
Emails == {"a@x", "c@x"}
UserRoles == {"user", "admin"}

\* the unique indexes on username and email: the write of doc as account uid
\* would duplicate a value of another account
DuplicateKey(store, uid, doc) ==
  \E v \in (DOMAIN store) \ {uid} :
    \/ Has(doc, "username") /\ store[v].username = doc.username
    \/ Has(doc, "email") /\ store[v].email = doc.email

\* new User({username, email, password, role}): role undefined takes the default
NewUser(body) ==
  Restrict(body, {"username", "email", "role"}) @@ [role |-> "user", isActive |-> TRUE]

ValidUser(doc) ==
  /\ Has(doc, "username") /\ Has(doc, "email") /\ doc.role \in UserRoles

NextUserId == Cardinality(DOMAIN users) + 1

\* user.save() of a new account, answered with created on success and with
\* 500 when save() throws
SaveNewUser(op, p, body) ==
  LET doc == NewUser(body)
  IN IF ~ValidUser(doc) \/ DuplicateKey(users, Null, doc)
     THEN /\ resp' = [op |-> op, code |-> 500, by |-> p, id |-> Null, body |-> body]
          /\ UNCHANGED users
     ELSE /\ users' = (NextUserId :> doc) @@ users
          /\ resp' = [op |-> op, code |-> 201, by |-> p, id |-> NextUserId, body |-> body]

RegisterBodies == {[username |-> n, email |-> e] @@ r :
                     n \in Usernames, e \in Emails, r \in OptField("role", UserRoles)}

register_findOne(r, body) ==
  /\ FreeReq(r) /\ NextUserId <= MaxUsers
  /\ IF \E v \in DOMAIN users :
          users[v].email = body.email \/ users[v].username = body.username
     THEN /\ resp' = [op |-> "register", code |-> 409, by |-> Null, id |-> Null,
                      body |-> body]
          /\ UNCHANGED inflight
     ELSE /\ inflight' = (r :> [op |-> "register", by |-> Null, id |-> Null,
                                newUser |-> body]) @@ inflight
          /\ UNCHANGED resp
  /\ UNCHANGED <<deploy, users, todos, nextId, now, listed, summary, pages, finished, tokens, requests, accepted>>

register_save(r) ==
  /\ r \in DOMAIN inflight /\ Has(inflight[r], "newUser")
  /\ SaveNewUser("register", Null, inflight[r].newUser)
  /\ Answered(r, resp'.code, inflight[r].newUser)
  /\ UNCHANGED <<deploy, todos, nextId, now, listed, summary, pages, tokens, requests, accepted>>

addUser(p, body) ==
  /\ IsAdmin(p) /\ NextUserId <= MaxUsers
  /\ SaveNewUser("addUser", p, body)
  /\ UNCHANGED <<deploy, todos, nextId, now, listed, inflight, summary, pages, finished, tokens, requests, accepted>>

ProfileBodies == {a @@ b : a \in OptField("username", Usernames),
                           b \in OptField("email", Emails)}

updateProfile_findOne(r, p, body) ==
  /\ Authenticated(p) /\ FreeReq(r)
  /\ IF /\ body # EmptyRec
        /\ \E v \in (DOMAIN users) \ {p} :
             \/ Has(body, "username") /\ users[v].username = body.username
             \/ Has(body, "email") /\ users[v].email = body.email
     THEN /\ resp' = [op |-> "updateProfile", code |-> 409, by |-> p, id |-> p,
                      body |-> body]
          /\ UNCHANGED inflight
     ELSE /\ inflight' = (r :> [op |-> "updateProfile", by |-> p, id |-> p,
                                profile |-> body]) @@ inflight
          /\ UNCHANGED resp
  /\ UNCHANGED <<deploy, users, todos, nextId, now, listed, summary, pages, finished, tokens, requests, accepted>>

updateProfile_findByIdAndUpdate(r) ==
  /\ r \in DOMAIN inflight /\ Has(inflight[r], "profile")
  /\ LET req == inflight[r]
         code == IF DuplicateKey(users, req.id, req.profile) THEN 500 ELSE 200
     IN /\ users' = IF code = 200
                    THEN UserFindByIdAndUpdate(users, req.id, req.profile)
                    ELSE users
        /\ resp' = [op |-> "updateProfile", code |-> code, by |-> req.by, id |-> req.id,
                    body |-> req.profile]
        /\ Answered(r, code, req.profile)
  /\ UNCHANGED <<deploy, todos, nextId, now, listed, summary, pages, tokens, requests, accepted>>

\* updateUserRole of unnamed/part_006: findByIdAndUpdate(userId, {role})
updateUserRole(p, uid, role) ==
  /\ IsAdmin(p)
  /\ IF uid \notin DOMAIN users
     THEN /\ resp' = [op |-> "updateUserRole", code |-> 404, by |-> p, id |-> uid,
                      body |-> [role |-> role]]
          /\ UNCHANGED users
     ELSE /\ users' = UserFindByIdAndUpdate(users, uid, [role |-> role])
          /\ resp' = [op |-> "updateUserRole", code |-> 200, by |-> p, id |-> uid,
                      body |-> [role |-> role]]
  /\ UNCHANGED <<deploy, todos, nextId, now, listed, inflight, summary, pages, finished, tokens, requests, accepted>>

\* an admin and a user, each with a username and an email of its own
InitNamed ==
  /\ deploy = "A"
  /\ users = (1 :> [username |-> "ann", email |-> "a@x", role |-> "admin",
                    isActive |-> TRUE])
             @@ (2 :> [username |-> "bob", email |-> "b@x", role |-> "user",
                       isActive |-> TRUE])
  /\ todos = EmptyRec
  /\ nextId = 1
  /\ now = 1
  /\ resp = NoResp
  /\ listed = {}
  /\ inflight = EmptyRec
  /\ summary = NoSummary
  /\ pages = <<>>
  /\ finished = EmptyRec
  /\ tokens = {}
  /\ requests = EmptyRec
  /\ accepted = <<>>

NextNamed ==
  \/ \E r \in ReqIds, body \in RegisterBodies : register_findOne(r, body)
  \/ \E r \in ReqIds : register_save(r)
  \/ \E p \in DOMAIN users, body \in RegisterBodies : addUser(p, body)
  \/ \E r \in ReqIds, p \in DOMAIN users, body \in ProfileBodies :
       updateProfile_findOne(r, p, body)
  \/ \E r \in ReqIds : updateProfile_findByIdAndUpdate(r)
  \/ \E p \in DOMAIN users, uid \in UserIds, role \in UserRoles : updateUserRole(p, uid, role)

SpecNamed == InitNamed /\ [][NextNamed]_vars

\* ================================================== tokens and sessions
\* The middleware of utils/validators.js in front of the handlers of
\* deployment B: login and deleteAccount of unnamed/part_007, the admin
\* router of routes/admin.js and getTodoById of unnamed/part_005.  A token is
\* what generateToken signs: the user id and the role at the time of issue.
\* A request presents a token issued earlier; resp also keeps the token and
\* the account as it was stored when the request started.

generateToken(userId, role) == [userId |-> userId, role |-> role]

NoToken == [userId |-> Null, role |-> "none"]          \* no token was issued
NoUser == [id |-> Null, role |-> "none", isActive |-> FALSE]   \* req.user is not set

\* req.user with the role of the token instead of the stored one
authenticateToken_TokenRole(tok) ==
  IF tok.userId \notin DOMAIN users THEN NoUser
  ELSE IF ~users[tok.userId].isActive THEN NoUser
  ELSE [id |-> tok.userId, role |-> tok.role, isActive |-> TRUE]

\* the middleware without its test of isActive
authenticateToken_NoActiveTest(tok) ==
  IF tok.userId \notin DOMAIN users THEN NoUser
  ELSE [id |-> tok.userId, role |-> users[tok.userId].role,
        isActive |-> users[tok.userId].isActive]

\* req.user, or NoUser when the middleware answers 401
authenticateToken(tok) ==
  IF tok.userId \notin DOMAIN users THEN NoUser
  ELSE IF ~users[tok.userId].isActive THEN NoUser
  ELSE [id |-> tok.userId, role |-> users[tok.userId].role,
        isActive |-> users[tok.userId].isActive]

requireAdmin(reqUser) == reqUser.role = "admin"

Stored(uid) == IF uid \in DOMAIN users THEN users[uid] ELSE [role |-> "none", isActive |-> FALSE]

TokenReply(op, code, tok, id) ==
  resp' = [op |-> op, code |-> code, by |-> tok.userId, id |-> id, token |-> tok,
           stored |-> Stored(tok.userId)]

auth_login(u, passwordValid) ==
  /\ deploy = "B"
  /\ LET code == IF u \notin DOMAIN users THEN 401
                 ELSE IF ~users[u].isActive THEN 401
                 ELSE IF ~passwordValid THEN 401
                 ELSE 200
         tok == IF code = 200 THEN generateToken(u, users[u].role) ELSE NoToken
     IN /\ tokens' = IF code = 200 THEN tokens \cup {tok} ELSE tokens
        /\ resp' = [op |-> "login", code |-> code, by |-> u, id |-> Null, token |-> tok,
                    stored |-> Stored(u)]
  /\ UNCHANGED <<users, inflight, listed, deploy, todos, nextId, now, summary, pages, finished,
                 requests, accepted>>

\* router.get('/users') of routes/admin.js
auth_adminGetUsers(tok) ==
  /\ deploy = "B" /\ tok \in tokens
  /\ LET reqUser == authenticateToken(tok)
     IN IF reqUser = NoUser THEN TokenReply("adminGetUsers", 401, tok, Null)
        ELSE IF ~requireAdmin(reqUser) THEN TokenReply("adminGetUsers", 403, tok, Null)
        ELSE TokenReply("adminGetUsers", 200, tok, Null)
  /\ UNCHANGED <<users, inflight, listed, deploy, todos, nextId, now, summary, pages, finished,
                 tokens, requests, accepted>>

\* router.put('/users/:id') of routes/admin.js
auth_adminPutUser(tok, uid, body) ==
  /\ deploy = "B" /\ tok \in tokens
  /\ LET reqUser == authenticateToken(tok)
     IN IF reqUser = NoUser
        THEN TokenReply("adminPutUser", 401, tok, uid) /\ UNCHANGED users
        ELSE IF ~requireAdmin(reqUser)
        THEN TokenReply("adminPutUser", 403, tok, uid) /\ UNCHANGED users
        ELSE IF uid = reqUser.id /\ Has(body, "isActive") /\ body.isActive = FALSE
        THEN TokenReply("adminPutUser", 400, tok, uid) /\ UNCHANGED users
        ELSE IF /\ Has(body, "role") /\ body.role = "user"
                /\ uid \in DOMAIN users /\ users[uid].role = "admin"
                /\ Cardinality(ActiveAdminsExcept(uid)) < 1
        THEN TokenReply("adminPutUser", 400, tok, uid) /\ UNCHANGED users
        ELSE IF uid \notin DOMAIN users
        THEN TokenReply("adminPutUser", 404, tok, uid) /\ UNCHANGED users
        ELSE /\ users' = UserFindByIdAndUpdate(users, uid, Restrict(body, {"role", "isActive"}))
             /\ TokenReply("adminPutUser", 200, tok, uid)
  /\ UNCHANGED <<inflight, listed, deploy, todos, nextId, now, summary, pages, finished,
                 tokens, requests, accepted>>

\* deleteAccount of unnamed/part_007
auth_deleteAccount(tok) ==
  /\ deploy = "B" /\ tok \in tokens
  /\ LET reqUser == authenticateToken(tok)
     IN IF reqUser = NoUser
        THEN TokenReply("deleteAccount", 401, tok, tok.userId) /\ UNCHANGED users
        ELSE IF reqUser.role = "admin" /\ Cardinality(ActiveAdminsExcept(Null)) <= 1
        THEN TokenReply("deleteAccount", 400, tok, tok.userId) /\ UNCHANGED users
        ELSE /\ users' = UserFindByIdAndUpdate(users, reqUser.id, [isActive |-> FALSE])
             /\ TokenReply("deleteAccount", 200, tok, tok.userId)
  /\ UNCHANGED <<inflight, listed, deploy, todos, nextId, now, summary, pages, finished,
                 tokens, requests, accepted>>

\* getTodoById of unnamed/part_005
auth_getTodoById(tok, id) ==
  /\ deploy = "B" /\ tok \in tokens
  /\ LET reqUser == authenticateToken(tok)
     IN IF reqUser = NoUser THEN TokenReply("getTodoById", 401, tok, id)
        ELSE IF id \notin DOMAIN todos THEN TokenReply("getTodoById", 404, tok, id)
        ELSE IF todos[id].userId # reqUser.id /\ reqUser.role # "admin"
        THEN TokenReply("getTodoById", 403, tok, id)
        ELSE TokenReply("getTodoById", 200, tok, id)
  /\ UNCHANGED <<users, inflight, listed, deploy, todos, nextId, now, summary, pages, finished,
                 tokens, requests, accepted>>

\* accounts of either role and state, at least one of them an active admin,
\* no token issued yet, and one task of the second account
InitAuth ==
  /\ deploy = "B"
  /\ users \in [1..(MaxUsers - 1) -> [role : UserRoles, isActive : BOOLEAN]]
  /\ HasActiveAdmin(users)
  /\ \E d \in ConcTodos : todos = (1 :> d)
  /\ nextId = 2
  /\ now = 1
  /\ resp = NoResp
  /\ listed = {}
  /\ inflight = EmptyRec
  /\ summary = NoSummary
  /\ pages = <<>>
  /\ finished = EmptyRec
  /\ tokens = {}
  /\ requests = EmptyRec
  /\ accepted = <<>>

NextAuth ==
  \/ \E u \in UserIds, passwordValid \in BOOLEAN : auth_login(u, passwordValid)
  \/ \E tok \in tokens : auth_adminGetUsers(tok)
  \/ \E tok \in tokens, uid \in UserIds, body \in UserUpdateBodies :
       auth_adminPutUser(tok, uid, body)
  \/ \E tok \in tokens : auth_deleteAccount(tok)
  \/ \E tok \in tokens, id \in 1..(MaxTodos + 1) : auth_getTodoById(tok, id)

SpecAuth == InitAuth /\ [][NextAuth]_vars

\* ============================================================ rate limiting
\* rateLimit(maxRequests, windowMs) of utils/validators.js: one middleware
\* instance with its Map from client id to the times of the requests it let
\* through.  The middleware has no await, so a request is one step.

MaxRequests == 2       \* maxRequests of the instance
WindowMs == 1          \* windowMs of the instance, in clock ticks
ClientIds == {"ip1", "ip2"}

\* Array.prototype.filter
RECURSIVE SelectTimes(_, _, _)
SelectTimes(times, currentTime, windowMs) ==
  IF times = <<>> THEN <<>>
  ELSE LET rest == SelectTimes(Tail(times), currentTime, windowMs)
       IN IF currentTime - Head(times) < windowMs THEN <<Head(times)>> \o rest ELSE rest

\* the test with > in place of >=
LimitReached_OneMore(validRequests) == Len(validRequests) > MaxRequests

LimitReached(validRequests) == Len(validRequests) >= MaxRequests

rateLimit(clientId) ==
  /\ LET currentTime == now
         clientRequests == IF clientId \in DOMAIN requests THEN requests[clientId] ELSE <<>>
         validRequests == SelectTimes(clientRequests, currentTime, WindowMs)
     IN IF LimitReached(validRequests)
        THEN /\ requests' = (clientId :> clientRequests) @@ requests
             /\ resp' = [op |-> "rateLimit", code |-> 429, by |-> clientId, id |-> Null,
                         at |-> currentTime]
             /\ UNCHANGED accepted
        ELSE /\ requests' = (clientId :> Append(validRequests, currentTime)) @@ requests
             /\ resp' = [op |-> "rateLimit", code |-> 200, by |-> clientId, id |-> Null,
                         at |-> currentTime]
             /\ accepted' = Append(accepted, <<clientId, currentTime>>)
  /\ UNCHANGED <<users, inflight, listed, deploy, todos, nextId, now, summary, pages, finished,
                 tokens>>

InitRate ==
  /\ deploy = "B"
  /\ users = InitUsers
  /\ todos = EmptyRec
  /\ nextId = 1
  /\ now = 1
  /\ resp = NoResp
  /\ listed = {}
  /\ inflight = EmptyRec
  /\ summary = NoSummary
  /\ pages = <<>>
  /\ finished = EmptyRec
  /\ tokens = {}
  /\ requests = EmptyRec
  /\ accepted = <<>>

NextRate ==
  \/ \E clientId \in ClientIds : rateLimit(clientId)
  \/ Tick

SpecRate == InitRate /\ [][NextRate]_vars

\* =================================================== dashboards and reports
\* getDashboard and getReports of unnamed/part_008 (deployment A) and the
\* /dashboard route of routes/admin.js (deployment B), behind
\* authenticateToken and requireAdmin.  A call reads the clock, then awaits
\* its queries one after another; other requests and the clock run between
\* the awaits.  Only the queries with a clause on time are steps here; the
\* call in progress is inflight, and with each count the ids it counted are
\* kept.  Seven days are WeekLen clock ticks.

\* the call's first statements: now = new Date() and the dates derived from it
DashStart(op, p) ==
  /\ IsAdmin(p) /\ inflight = EmptyRec
  /\ inflight' = [op |-> op, by |-> p, now |-> now, pc |-> 1, overdueAt |-> now,
                  overdue |-> {}, recent |-> {}, previous |-> {}, completedToday |-> {}]
  /\ UNCHANGED <<deploy, users, todos, nextId, now, resp, listed, summary, pages, finished, tokens, requests, accepted>>

\* one awaited query of the call in progress
DashQuery(op, pc, found) ==
  /\ inflight # EmptyRec /\ inflight.op = op /\ inflight.pc = pc
  /\ inflight' = found @@ [pc |-> pc + 1] @@ inflight
  /\ UNCHANGED <<deploy, users, todos, nextId, now, resp, listed, summary, pages, finished, tokens, requests, accepted>>

\* the last awaited query of the call and res.json
DashRespond(op, pc, found, counts) ==
  /\ inflight # EmptyRec /\ inflight.op = op /\ inflight.pc = pc
  /\ LET done == found @@ inflight
     IN /\ resp' = [op |-> op, code |-> 200, by |-> done.by, id |-> Null,
                    at |-> done.now, overdueAt |-> done.overdueAt,
                    overdue |-> done.overdue, recent |-> done.recent,
                    previous |-> done.previous, completedToday |-> done.completedToday]
        /\ summary' = counts
  /\ inflight' = EmptyRec
  /\ UNCHANGED <<deploy, users, todos, nextId, now, listed, pages, finished, tokens, requests, accepted>>

CreatedSince(t) == {id \in DOMAIN todos : todos[id].createdAt >= t}
CreatedBetween(from, to) ==
  {id \in DOMAIN todos : todos[id].createdAt >= from /\ todos[id].createdAt < to}
DueBefore(t, done) ==
  {id \in DOMAIN todos : todos[id].dueDate < t /\ todos[id].status \notin done}

\* Math.round(n / d) for d > 0: the nearest integer, a half rounded up
MathRound(n, d) == (2 * n + d) \div (2 * d)

\* weeklyComparison.growth of getDashboard
Growth(recentTodos, previousWeekTodos) ==
  IF previousWeekTodos > 0
  THEN MathRound((recentTodos - previousWeekTodos) * 100, previousWeekTodos)
  ELSE IF recentTodos > 0 THEN 100 ELSE 0

\* ---- getDashboard of unnamed/part_008
getDashboard_start(p) == deploy = "A" /\ DashStart("getDashboard", p)

getDashboard_overdueTodos ==
  DashQuery("getDashboard", 1, [overdue |-> DueBefore(inflight.now, {"completed"})])

getDashboard_recentTodos ==
  DashQuery("getDashboard", 2, [recent |-> CreatedSince(inflight.now - WeekLen)])

WeeklyCounts(done) ==
  [overdue |-> Cardinality(done.overdue),
   currentWeek |-> Cardinality(done.recent),
   previousWeek |-> Cardinality(done.previous),
   growth |-> Growth(Cardinality(done.recent), Cardinality(done.previous))]

getDashboard_previousWeekTodos ==
  LET found == [previous |-> CreatedBetween(inflight.now - 2 * WeekLen,
                                          inflight.now - WeekLen)]
  IN DashRespond("getDashboard", 3, found, WeeklyCounts(found @@ inflight))

\* ---- getReports of unnamed/part_008: the overdue clause of its first
\* pipeline is built with a new Date() of its own
getReports_start(p) == deploy = "A" /\ DashStart("getReports", p)

ReportCounts(done) ==
  [overdue |-> Cardinality(done.overdue), recentActivity |-> Cardinality(done.recent)]

getReports_userActivityReport ==
  LET found == [overdueAt |-> now,
              overdue |-> DueBefore(now, {"completed"}),
              recent |-> CreatedSince(inflight.now - WeekLen)]
  IN DashRespond("getReports", 1, found, ReportCounts(found @@ inflight))

\* ---- router.get('/dashboard') of routes/admin.js
dashboard_start(p) == deploy = "B" /\ DashStart("dashboard", p)

dashboard_tasksLast7Days ==
  DashQuery("dashboard", 1,
            [recent |-> CreatedBetween(inflight.now - WeekLen, inflight.now + 1)])

dashboard_tasksPrevious7Days ==
  DashQuery("dashboard", 2,
            [previous |-> CreatedBetween(inflight.now - 2 * WeekLen,
                                         inflight.now - WeekLen)])

dashboard_overdueTasks ==
  DashQuery("dashboard", 3,
            [overdue |-> DueBefore(inflight.now, {"Completed", "Cancelled"})])

SummaryCounts(done) ==
  [tasksLast7Days |-> Cardinality(done.recent),
   tasksPrevious7Days |-> Cardinality(done.previous),
   overdueTasks |-> Cardinality(done.overdue),
   completedToday |-> Cardinality(done.completedToday)]

\* now.setHours(0, 0, 0, 0) and now.setHours(23, 59, 59, 999) of the call's now
dashboard_completedToday ==
  LET found == [completedToday |->
                {id \in DOMAIN todos :
                   /\ todos[id].status = "Completed"
                   /\ todos[id].completedAt >= StartOfDay(inflight.now)
                   /\ todos[id].completedAt <= StartOfDay(inflight.now) + DayLen - 1}]
  IN DashRespond("dashboard", 4, found, SummaryCounts(found @@ inflight))

\* the store when the calls start: tasks created up to two weeks back
DashIds == (MaxTodos + 1)..(MaxTodos + MaxDashTodos)

DashDocs ==
  LET flag == IF deploy = "B" THEN [isOverdue |-> FALSE] ELSE EmptyRec
      doc(d, st, c, cr) == flag @@ [title |-> "Ab", category |-> "Personal", dueDate |-> d,
                                    status |-> st, completedAt |-> c, userId |-> 2,
                                    assignedBy |-> Null, createdAt |-> cr]
  IN {doc(d, DefaultStatus, Null, cr) : d \in Times, cr \in (1 - 2 * WeekLen)..1}
     \cup {doc(1, CompletedStatus, 1, 0)}

InitDash ==
  /\ deploy \in {"A", "B"}
  /\ users = InitUsers
  /\ todos \in [DashIds -> DashDocs]
  /\ nextId = 1
  /\ now = 1
  /\ resp = NoResp
  /\ listed = {}
  /\ inflight = EmptyRec
  /\ summary = NoSummary
  /\ pages = <<>>
  /\ finished = EmptyRec
  /\ tokens = {}
  /\ requests = EmptyRec
  /\ accepted = <<>>

NextDash ==
  \/ \E p \in DOMAIN users : getDashboard_start(p)
  \/ getDashboard_overdueTodos
  \/ getDashboard_recentTodos
  \/ getDashboard_previousWeekTodos
  \/ \E p \in DOMAIN users : getReports_start(p)
  \/ getReports_userActivityReport
  \/ \E p \in DOMAIN users : dashboard_start(p)
  \/ dashboard_tasksLast7Days
  \/ dashboard_tasksPrevious7Days
  \/ dashboard_overdueTasks
  \/ dashboard_completedToday
  \/ \E p \in DOMAIN users, body \in StatsCreateBodies : createTodo(p, body)
  \/ \E p \in DOMAIN users, body \in StatsCreateBodies : todoController_createTodo(p, body)
  \/ Tick

SpecDash == InitDash /\ [][NextDash]_vars

\* ================================================================ claims
\* checked under Spec: requests run one at a time, each to completion

\* C1: after any sequence of create, update and complete requests, every
\* stored task has completedAt non-null if and only if its status is
\* completed.
C1_CompletedAtIffCompleted ==
  \A id \in DOMAIN todos :
    (todos[id].completedAt # Null) <=> (todos[id].status = CompletedStatus)

\* an update or complete request has just moved a task into completed
C1_Witness ==
  /\ resp.op \in {"updateTodo", "completeTodo"} /\ resp.code = 200
  /\ resp.id \in DOMAIN todos
  /\ todos[resp.id].status = CompletedStatus
  /\ todos[resp.id].completedAt = now /\ now > 1

\* C4: a single-task read, update or delete on an existing task is answered
\* Forbidden exactly when the principal is neither an admin nor the task's
\* owner; a Forbidden request leaves the task store unchanged, a permitted
\* read answers 200 and a permitted delete removes the task.
C4_OwnerOrAdminOnly ==
  [][(resp'.op \in {"getTodoById", "updateTodo", "deleteTodo"}
      /\ now' = now /\ resp'.id \in DOMAIN todos)
     => LET p == resp'.by
            permitted == users[p].role = "admin" \/ todos[resp'.id].userId = p
        IN /\ (resp'.code = 403) <=> ~permitted
           /\ resp'.code = 403 => todos' = todos
           /\ resp'.op = "getTodoById" => (resp'.code = 200 <=> permitted)
           /\ (resp'.op = "deleteTodo" /\ permitted) => resp'.id \notin DOMAIN todos'
    ]_vars

\* a non-owner who is not an admin was refused the deletion of an existing task
C4_Witness ==
  /\ resp.op = "deleteTodo" /\ resp.code = 403
  /\ resp.id \in DOMAIN todos
  /\ todos[resp.id].userId # resp.by /\ users[resp.by].role # "admin"

FieldsValid(body) ==
  Has(body, "title") /\ Len(body.title) \in 1..TitleMaxLen /\ Has(body, "dueDate")

NamesOtherOwner(p, body) ==
  \/ Has(body, "assignToUserId") /\ body.assignToUserId # p
  \/ Has(body, "userId") /\ body.userId # p

\* C5: a create request by a non-admin principal that names an owner other
\* than the principal fails with Forbidden and creates no task (stated for
\* requests whose task fields are valid, which no other check rejects).
C5_NonAdminCannotNameOwner ==
  [][resp'.op = "createTodo"
     => LET p == resp'.by
            refused == resp'.code = 403 /\ todos' = todos
        IN /\ \A body \in CreateBodiesA :
                (createTodo(p, body) /\ users[p].role # "admin"
                 /\ NamesOtherOwner(p, body) /\ FieldsValid(body)) => refused
           /\ \A body \in CreateBodiesB :
                (todoController_createTodo(p, body) /\ users[p].role # "admin"
                 /\ NamesOtherOwner(p, body) /\ FieldsValid(body)) => refused
    ]_vars

TargetExists(body) == Has(body, "userId") /\ body.userId \in DOMAIN users

AssignStep(p, body) == assignTodoToUser(p, body) \/ adminPostTodos(p, body)

C7_AssignedByOnlyForOthers ==
  \A id \in DOMAIN todos :
    todos[id].assignedBy # Null
    => /\ todos[id].assignedBy \in DOMAIN users
       /\ users[todos[id].assignedBy].role = "admin"
       /\ todos[id].userId # todos[id].assignedBy

\* C8: an update request changes a task's userId only if the requesting
\* principal is an admin, and then assignedBy becomes that admin's id; an
\* update by a non-admin changes neither userId nor assignedBy.
C8_OnlyAdminReassigns ==
  [][(resp'.op = "updateTodo" /\ resp'.id \in DOMAIN todos
      /\ resp'.id \in DOMAIN todos')
     => LET p == resp'.by
            old == todos[resp'.id]
            new == todos'[resp'.id]
        IN /\ new.userId # old.userId
              => (users[p].role = "admin" /\ new.assignedBy = p)
           /\ users[p].role # "admin"
              => (new.userId = old.userId /\ new.assignedBy = old.assignedBy)
    ]_vars

\* an admin has just moved a task, created by its owner, to another owner
C8_Witness ==
  /\ resp.op = "updateTodo" /\ resp.code = 200
  /\ users[resp.by].role = "admin"
  /\ resp.id \in DOMAIN todos
  /\ todos[resp.id].assignedBy = resp.by
  /\ todos[resp.id].userId # resp.by
  /\ todos[resp.id].title = T201

\* C10: an update or complete request that sets status = completed on a task
\* that is already completed leaves completedAt at its previous value.
C10_CompletedAtWrittenOnce ==
  [][(resp'.op \in {"updateTodo", "completeTodo"} /\ now' = now
      /\ resp'.id \in DOMAIN todos /\ resp'.id \in DOMAIN todos')
     => LET old == todos[resp'.id]
            new == todos'[resp'.id]
        IN (old.status = CompletedStatus /\ new.status = CompletedStatus)
           => new.completedAt = old.completedAt
    ]_vars

\* checked under SpecConc: updateTodo requests interleave

\* C2: under every interleaving of concurrent update requests on the same
\* task, no stored state has status = completed with completedAt = null.
C2_NoTornCompletion ==
  \A id \in DOMAIN todos :
    ~(todos[id].status = "completed" /\ todos[id].completedAt = Null)

\* checked under SpecAccounts: account requests run one at a time

\* C9: starting with at least one active admin, after any sequence of admin
\* user updates and account self-deactivations at least one user with
\* role = admin and isActive = true exists.
C9_ActiveAdminRemains == HasActiveAdmin(users)

\* checked under SpecList: list requests against a fixed task store

ListOps == {"getTodos", "getTodosByGroup", "getTodaysTodos", "getOverdueTodos",
            "getCompletedTodos", "searchTodos"}

\* C3: every task returned by a list or search request of a non-admin
\* principal is owned by that principal, whatever query parameters were
\* supplied, a userId naming another user included.
C3_ListsOnlyOwnTasks ==
  (resp.op \in ListOps /\ users[resp.by].role # "admin")
  => \A id \in listed : todos[id].userId = resp.by

\* a non-admin asked getTodos for another user's tasks, that user has a task,
\* and the answer holds the caller's own tasks only
C3_Witness ==
  /\ resp.op = "getTodos" /\ users[resp.by].role # "admin"
  /\ resp.id # Null /\ resp.id # resp.by
  /\ \E id \in DOMAIN todos : todos[id].userId = resp.id
  /\ listed # {}
  /\ \A id \in listed : todos[id].userId = resp.by

\* checked under SpecStats: status changes, the overdue list, the statistics

DoneStatuses == {CompletedStatus, "Cancelled"}

NotOverdueWhenDone ==
  \A id \in DOMAIN todos :
    todos[id].status \in DoneStatuses
    => /\ ~IsOverdueA(todos[id], now) \/ deploy # "A"
       /\ ~IsOverdueVirtualB(todos[id], now) \/ deploy # "B"
       /\ Has(todos[id], "isOverdue") => ~todos[id].isOverdue

\* C11: a task whose status is completed (or cancelled) is never overdue: the
\* overdue predicate and the stored flag are false for it, the overdue list
\* does not return it and the overdue count of the statistics leaves it out.
\* It holds while requests run one at a time (SpecStats) and fails for the
\* stored flag when two saves of the same task interleave (SpecConc).
C11_DoneNeverOverdue ==
  [][/\ NotOverdueWhenDone'
     /\ (todos' = todos /\ now' = now /\ resp'.op = "getOverdueTodos")
        => \A id \in listed' : todos[id].status \notin DoneStatuses
     /\ (/\ todos' = todos /\ now' = now /\ resp'.code = 200
         /\ resp'.op \in {"getUserStats", "getStatsSummary"})
        => summary'.overdue <=
             Cardinality({id \in OwnedBy(resp'.by) : todos[id].status \notin DoneStatuses})
    ]_vars

\* checked under Spec

\* C12: after every successful create or update request the stored task
\* satisfies the field constraints of the schema (title present and at most
\* 200 characters, dueDate present, status a member of its enum); a request
\* violating a constraint does not succeed.
C12_StoredTasksValid ==
  \A id \in DOMAIN todos : ValidTodo(todos[id])

WriteOps == {"createTodo", "updateTodo", "completeTodo", "assignTodoToUser",
             "adminPostTodos"}

\* C13: a create or update request that ends in a failure response (invalid
\* field, task not found, forbidden, reassignment target not found) leaves
\* the task store exactly as it was: none of the supplied fields is applied.
C13_FailureLeavesStore ==
  [][(resp'.op \in WriteOps /\ resp'.code >= 400 /\ now' = now)
     => (todos' = todos /\ nextId' = nextId)]_vars

\* an update that supplied a new title and a reassignment target that does
\* not exist was answered 404, and the task still has its first title
C13_Witness ==
  /\ resp.op = "updateTodo" /\ resp.code = 404
  /\ resp.id \in DOMAIN todos
  /\ todos[resp.id].title = T200
  /\ users[resp.by].role = "admin"

\* checked under SpecStats

\* the fields a body does not supply keep their values
FrameKept(old, new, body) ==
  /\ DOMAIN new = DOMAIN old
  /\ ~Has(body, "title") => new.title = old.title
  /\ ~Has(body, "dueDate") => new.dueDate = old.dueDate
  /\ ~Has(body, "status") => (new.status = old.status /\ new.completedAt = old.completedAt)
  /\ ~Has(body, "assignToUserId")
     => (new.userId = old.userId /\ new.assignedBy = old.assignedBy)

UpdateStep(p, id, body) == updateTodo(p, id, body) \/ todoController_updateTodo(p, id, body)

\* C14 as stated: every field an update request does not supply keeps its
\* value (apart from completedAt derived from a supplied status and
\* assignedBy derived from an admin reassignment); an update with no fields
\* stores the task unchanged.
C14_UnsuppliedFieldsKept ==
  [][(resp'.op = "updateTodo" /\ resp'.code = 200 /\ now' = now)
     => \A body \in (IF deploy = "A" THEN UpdateBodiesA ELSE UpdateBodiesB) :
          UpdateStep(resp'.by, resp'.id, body)
          => LET old == todos[resp'.id]
                 new == todos'[resp'.id]
             IN /\ FrameKept(old, new, body)
                /\ (Has(old, "isOverdue") /\ ~Has(body, "status") /\ ~Has(body, "dueDate"))
                   => new.isOverdue = old.isOverdue
                /\ body = EmptyRec => new = old
    ]_vars

\* C14 amended: every field an update request does not supply keeps its
\* value, apart from completedAt derived from a supplied status, assignedBy
\* derived from an admin reassignment and the stored isOverdue flag, which
\* every save recomputes from the clock; an update with no fields stores the
\* task unchanged except for that flag.
C14_UnsuppliedFieldsKeptButFlag ==
  [][(resp'.op = "updateTodo" /\ resp'.code = 200 /\ now' = now)
     => \A body \in (IF deploy = "A" THEN UpdateBodiesA ELSE UpdateBodiesB) :
          UpdateStep(resp'.by, resp'.id, body)
          => LET old == todos[resp'.id]
                 new == todos'[resp'.id]
             IN /\ FrameKept(old, new, body)
                /\ Has(new, "isOverdue")
                   => new.isOverdue = (new.status \notin DoneStatuses /\ now > new.dueDate)
                /\ body = EmptyRec
                   => \A k \in DOMAIN old \ {"isOverdue"} : new[k] = old[k]
    ]_vars

\* a task completed earlier has since been given a new title by an update,
\* and is still completed at the time it was completed
C14_Witness ==
  /\ resp.op = "updateTodo" /\ resp.code = 200
  /\ resp.id \in DOMAIN todos
  /\ todos[resp.id].title = T201
  /\ todos[resp.id].status = CompletedStatus
  /\ todos[resp.id].completedAt # Null /\ todos[resp.id].completedAt < now

\* checked under SpecList

Groups == {"today", "all", "completed", "overdue"}

\* what a group asks of a task, read at time t
InGroup(doc, group, t) ==
  CASE group = "today" -> /\ doc.dueDate >= StartOfDay(t)
                          /\ doc.dueDate < StartOfDay(t) + DayLen
                          /\ doc.status # CompletedStatus
    [] group = "completed" -> doc.status = CompletedStatus
    [] group = "overdue" -> doc.dueDate < t /\ doc.status # CompletedStatus
    [] group = "all" -> doc.status # CompletedStatus
    [] OTHER -> TRUE

\* C15: in a getTodos request with a group parameter the status condition is
\* the group's, and a status parameter supplied with it has no effect: the
\* answer is the answer to the same request without the status parameter.
C15_GroupOverridesStatus ==
  (resp.op = "getTodos" /\ Has(resp.q, "group"))
  => /\ \A id \in listed : InGroup(todos[id], resp.q.group, resp.at)
     /\ listed = Find(GetTodosQuery(resp.by, Restrict(resp.q, DOMAIN resp.q \ {"status"}),
                                    resp.at))

\* getTodos was asked for group today with status completed and answered
\* with a task that is not completed
C15_Witness ==
  /\ resp.op = "getTodos" /\ Has(resp.q, "group") /\ Has(resp.q, "status")
  /\ resp.q.group = "today" /\ resp.q.status = "completed"
  /\ \E id \in listed : todos[id].status = "pending"

\* C16: a list request whose group is not one of today, all, completed,
\* overdue fails with an invalid-parameter error and returns no tasks, on
\* getTodos and on getTodosByGroup.
C16_UnknownGroupRejected ==
  (resp.op \in {"getTodos", "getTodosByGroup"} /\ Has(resp.q, "group")
   /\ resp.q.group \notin Groups)
  => (resp.code = 400 /\ listed = {})

\* a request for the today group with no further filter
TodayRequest ==
  \/ resp.op = "getTodaysTodos"
  \/ /\ resp.op \in {"getTodos", "getTodosByGroup"}
     /\ Has(resp.q, "group") /\ resp.q.group = "today" /\ ~Has(resp.q, "search")

\* C17: the today group returns exactly the principal's non-completed tasks
\* whose dueDate lies in [start of the current day, start of the next day):
\* due at the start of the day is in, one tick earlier is out, due at the
\* start of the next day is out.
C17_TodayIsHalfOpenDay ==
  (TodayRequest /\ resp.code = 200)
  => listed = {id \in DOMAIN todos :
                 /\ todos[id].userId = resp.by
                 /\ todos[id].status # CompletedStatus
                 /\ todos[id].dueDate >= StartOfDay(resp.at)
                 /\ todos[id].dueDate < StartOfDay(resp.at) + DayLen}

\* the text in which a search term is looked for
Substring(text, term) ==
  \E i \in 1..(Len(text) - Len(term) + 1) :
    \A j \in 1..Len(term) :
      LowerChar(SubSeq(term, j, j)) = LowerChar(SubSeq(text, i + j - 1, i + j - 1))

\* C18: free-text search returns a task of the scoped set if and only if the
\* search term occurs, case-insensitively, as a substring of the task's
\* title, description or category.
C18_SearchIsSubstring ==
  (resp.op = "searchTodos" /\ resp.code = 200)
  => listed = {id \in DOMAIN todos :
                 /\ todos[id].userId = resp.by
                 /\ \E f \in {"title", "description", "category"} :
                      Has(todos[id], f) /\ Substring(todos[id][f], resp.q.search)}

\* checked under SpecPage

RECURSIVE Concat(_)
Concat(ps) == IF ps = <<>> THEN <<>> ELSE Head(ps) \o Concat(Tail(ps))

\* the walk has fetched pages 1..ceil(total / limit)
WalkComplete ==
  /\ pages # <<>>
  /\ Len(pages) * resp.q.limit >= resp.total
  /\ (Len(pages) - 1) * resp.q.limit < resp.total

\* C19: with the store unchanged, the pages 1..ceil(total / pageSize) of a
\* list put end to end hold exactly total items, every matching task exactly
\* once, also when several tasks tie on the sort field.
C19_PagesPartitionMatches ==
  WalkComplete
  => LET all == Concat(pages)
     IN /\ Len(all) = resp.total
        /\ {all[i] : i \in 1..Len(all)} = listed
        /\ \A i, j \in 1..Len(all) : i # j => all[i] # all[j]

\* checked under SpecStats

\* C20: in every summary the per-status counts add up to the total:
\* pending + inProgress + completed = total.
C20_CountsAddUpToTotal ==
  summary # NoSummary
  => summary.pending + summary.inProgress + summary.completed = summary.total

\* checked under SpecStats

StatsOps == {"getUserStats", "getStatsSummary"}

\* a statistics answer for the present store and time is followed by the
\* overdue list of the same user
StatsThenOverdueList ==
  /\ resp.op \in StatsOps /\ resp.code = 200 /\ resp.at = now
  /\ resp'.op = "getOverdueTodos" /\ resp'.code = 200 /\ resp'.by = resp.by
  /\ todos' = todos /\ now' = now

\* the statuses that keep a task from being overdue in the running schema
NotOverdueStatuses == IF deploy = "A" THEN {"completed"} ELSE {"Completed", "Cancelled"}

DashboardAnswered == resp.op = "getDashboard" /\ resp.code = 200

\* the growth figure is the nearest whole percentage of the change
GrowthAsStated ==
  LET c == summary.currentWeek
      p == summary.previousWeek
      d == summary.growth * p - (c - p) * 100
  IN /\ p > 0 => (2 * d <= p /\ -2 * d <= p)
     /\ (p = 0 /\ c > 0) => summary.growth = 100
     /\ (p = 0 /\ c = 0) => summary.growth = 0

\* the previous week is [now - 14d, now - 7d), no task is in both weeks, and
\* the counts are the sizes of the two windows
WeeksApart ==
  /\ summary.currentWeek = Cardinality(resp.recent)
  /\ summary.previousWeek = Cardinality(resp.previous)
  /\ resp.recent \cap resp.previous = {}
  /\ \A id \in DOMAIN todos :
       LET cr == todos[id].createdAt
       IN /\ id \in resp.previous
             <=> (cr >= resp.at - 2 * WeekLen /\ cr < resp.at - WeekLen)
          /\ (cr >= resp.at - WeekLen /\ cr < resp.at) => id \in resp.recent

\* C22: weeklyComparison counts the tasks created in [now - 7d, now)
\* as current and those created in [now - 14d, now - 7d) as previous, no task
\* in both, and growth is round((current - previous) / previous * 100) when
\* previous > 0, otherwise 100 if current > 0 and 0 if current = 0.
C22_WeeklyComparison ==
  DashboardAnswered
  => /\ WeeksApart
     /\ \A id \in resp.recent :
          todos[id].createdAt >= resp.at - WeekLen /\ todos[id].createdAt < resp.at
     /\ GrowthAsStated

DashOps == {"getDashboard", "getReports", "dashboard"}

\* C23: within one dashboard or report call every clause on time (overdue
\* counts, the 7- and 14-day windows, the bounds of completed today) is
\* evaluated against the one timestamp taken at the start of the call, also
\* when the clock advances between the call's queries.
C23_OneTimestampPerCall ==
  (resp.op \in DashOps /\ resp.code = 200)
  => /\ resp.overdueAt = resp.at
     /\ \A id \in resp.overdue : todos[id].dueDate < resp.at
     /\ \A id \in resp.recent : todos[id].createdAt >= resp.at - WeekLen
     /\ \A id \in resp.previous :
          /\ todos[id].createdAt >= resp.at - 2 * WeekLen
          /\ todos[id].createdAt < resp.at - WeekLen
     /\ \A id \in resp.completedToday :
          /\ todos[id].completedAt >= StartOfDay(resp.at)
          /\ todos[id].completedAt < StartOfDay(resp.at) + DayLen

\* checked under SpecConc

\* the update requests on task id answered with success
Updated(id) == {r \in DOMAIN finished : finished[r].id = id /\ finished[r].code = 200}

\* C24: when concurrent update requests on one task have all been answered,
\* a field supplied by exactly one of them holds that request's value, under
\* every interleaving, and a field supplied by several holds the value of one
\* of them.
C24_FieldLevelLastWriteWins ==
  inflight = EmptyRec
  => \A id \in DOMAIN todos : \A k \in {"title", "status"} :
       LET by == {r \in Updated(id) : Has(finished[r].supplied, k)}
       IN by # {} => \E r \in by : todos[id][k] = finished[r].supplied[k]

\* two requests read the same stored task, one then wrote a title and the
\* other a status, and the task holds both
C24_Witness ==
  /\ inflight = EmptyRec /\ DOMAIN finished = {1, 2}
  /\ finished[1].code = 200 /\ finished[2].code = 200
  /\ DOMAIN finished[1].supplied = {"title"} /\ DOMAIN finished[2].supplied = {"status"}
  /\ todos[1].title = finished[1].supplied.title /\ todos[1].title # T200
  /\ todos[1].status = finished[2].supplied.status
  /\ todos[1].status = CompletedStatus /\ todos[1].completedAt = 2

\* checked under SpecAdmins: account requests interleave

\* C25: starting with two or more active admins, under every interleaving of
\* requests that count the active admins and then write (admins
\* deactivating each other or themselves, demotions), some active admin
\* remains.
C25_ActiveAdminRemainsInterleaved ==
  Cardinality({u \in DOMAIN users : users[u].role = "admin" /\ users[u].isActive}) >= 1

\* checked under SpecNamed: account requests by name interleave

\* the account a request writes, and the names it asks for
Written(r) == IF r.op = "updateProfile" THEN r.by ELSE Null

WouldDuplicate(r) == DuplicateKey(users, Written(r), r.body)

\* C26: in every reachable state no two accounts share a username and no two
\* share an email, also when register, admin add-user and profile-update
\* requests interleave; a request that would create a duplicate fails with
\* Conflict (409) and changes nothing.
C26_UniqueNamesOrConflict ==
  [][/\ \A u, v \in DOMAIN users' :
          u # v => (users'[u].username # users'[v].username
                    /\ users'[u].email # users'[v].email)
     /\ (/\ resp' # resp
         /\ resp'.op \in {"register", "addUser", "updateProfile"}
         /\ WouldDuplicate(resp'))
        => (resp'.code = 409 /\ users' = users)
    ]_vars

\* C27: an account with role admin comes into existence only through a
\* request of an authenticated admin (admin add-user or an admin role
\* update); a self-registration always yields an account with role user.
C27_AdminOnlyByAdmin ==
  [][\A u \in DOMAIN users' :
       (users'[u].role = "admin" /\ (u \in DOMAIN users => users[u].role # "admin"))
       => (resp'.op \in {"addUser", "updateUserRole"} /\ IsAdmin(resp'.by))
    ]_vars

\* checked under SpecAuth: requests present tokens issued earlier

AdminOnlyOps == {"adminGetUsers", "adminPutUser"}

\* the last request was on an admin-only route or on another user's task
OnAdminOnlyOrOthersTask ==
  \/ resp.op \in AdminOnlyOps
  \/ /\ resp.op = "getTodoById" /\ resp.id \in DOMAIN todos
     /\ todos[resp.id].userId # resp.by

\* C28: authorization uses the role stored for the user when the request
\* starts, never the role in the token: a request on an admin-only route or on
\* another user's task by a user whose stored role is not admin is denied
\* (401 or 403), whatever role its token was issued with.
C28_StoredRoleDecides ==
  (/\ OnAdminOnlyOrOthersTask
   /\ resp.stored.role # "admin")
  => resp.code \in {401, 403}

\* an admin logged in, was then changed to user, and the old token is denied
C28_Witness ==
  /\ OnAdminOnlyOrOthersTask
  /\ resp.token.role = "admin" /\ resp.stored.role = "user" /\ resp.stored.isActive
  /\ resp.code = 403

TokenOps == AdminOnlyOps \cup {"getTodoById", "deleteAccount"}

\* C29: a request that presents the token of an account whose isActive flag
\* is false when the request starts is answered 401 by authentication, and a
\* login for such an account is answered 401 and issues no token.
C29_InactiveRejected ==
  (/\ resp.op \in TokenOps \cup {"login"}
   /\ resp.by \in DOMAIN users
   /\ ~resp.stored.isActive)
  => (resp.code = 401 /\ (resp.op = "login" => resp.token = NoToken))

\* ... and while the flag is true authentication lets the token through
C29_ActiveAccepted ==
  (resp.op \in TokenOps /\ resp.stored.isActive) => resp.code # 401

\* a token issued while the account was active is rejected after deactivation
C29_Witness ==
  /\ resp.op \in TokenOps
  /\ resp.token \in tokens
  /\ ~resp.stored.isActive
  /\ resp.code = 401

\* checked under SpecRate

RECURSIVE CountIn(_, _, _, _)
\* the requests of client c let through at times in (lo, hi]
CountIn(log, c, lo, hi) ==
  IF log = <<>> THEN 0
  ELSE (IF Head(log)[1] = c /\ Head(log)[2] > lo /\ Head(log)[2] <= hi THEN 1 ELSE 0)
       + CountIn(Tail(log), c, lo, hi)

\* C30: for every client and every time t at which a request of that client
\* was let through, at most maxRequests of its requests were let through at
\* times in (t - windowMs, t]; a request answered 429 is not recorded.
C30_WindowBound ==
  [][/\ \A i \in 1..Len(accepted') :
          CountIn(accepted', accepted'[i][1], accepted'[i][2] - WindowMs, accepted'[i][2])
            <= MaxRequests
     /\ (resp'.op = "rateLimit" /\ resp'.code = 429)
          => (accepted' = accepted
              /\ \A c \in DOMAIN requests : requests'[c] = requests[c])
    ]_vars

\* a client is let through again after its earlier requests left the window
C30_Witness ==
  /\ resp.op = "rateLimit" /\ resp.code = 200
  /\ CountIn(accepted, resp.by, 0, resp.at) > MaxRequests
  /\ CountIn(accepted, resp.by, resp.at - WindowMs, resp.at) = MaxRequests

====
